---------------------------- MODULE Spec2Model ----------------------------
(***************************************************************************)
(* Faceted search and filtering engine of schmidt-api (src/api/schema.py). *)
(*                                                                         *)
(* Python strings are sequences of one-character strings, so that          *)
(* lower(), `in`, split("_"), int() and str() are computed, not assumed.   *)
(* An optional value (None or a value) is a sequence of length at most 1.  *)
(* A Pony query over Item is the set of item ids it selects; a Python      *)
(* exception is an outcome of its own.                                     *)
(***************************************************************************)
EXTENDS Integers, Sequences, FiniteSets, TLC

VARIABLES db, store_order, filters, search_text, order_by, is_desc, page, pagesize,
          preview, explain_results, positional, pc, filtered, filter_counts,
          ordered, response, earlier, search_cache, items_cache, calls,
          author_order, in_flight

vars == <<db, store_order, filters, search_text, order_by, is_desc, page, pagesize,
          preview, explain_results, positional, pc, filtered, filter_counts,
          ordered, response, earlier, search_cache, items_cache, calls,
          author_order, in_flight>>

\* the arguments of a call, and how many of them are passed by position
arguments == <<filters, search_text, order_by, is_desc, page, pagesize,
               preview, explain_results, positional>>

\* the two caches
caches == <<search_cache, items_cache>>

\* Bounds of the model.
MaxItems == 4
MaxFilterKeys == 2

--------------------------------------------------------------------------
\* Python values

None == <<>>
Some(x) == <<x>>
IsNone(o) == Len(o) = 0
Val(o) == o[1]

NoError == "NoError"

\* The rows of a query over Item: how many rows it holds of each item id.
\* Pony adds DISTINCT to a select of entities, which leaves one row of each.
NoRows == [i \in {} |-> 1]
Distinct(rows) == [i \in {j \in DOMAIN rows : rows[j] > 0} |-> 1]
RowsOf(ids) == [i \in ids |-> 1]

\* The outcome of a call: the query it returns, or the exception it raises.
Ok(rows) == [error |-> NoError, rows |-> rows]
Raise(e) == [error |-> e, rows |-> NoRows]
ItemsOf(res) == DOMAIN res.rows

Range(seq) == {seq[k] : k \in 1..Len(seq)}

\* str.lower() on the characters the model uses
LowerChar(c) ==
    CASE c = "A" -> "a"
      [] c = "B" -> "b"
      [] c = "C" -> "c"
      [] c = "D" -> "d"
      [] c = "E" -> "e"
      [] c = "F" -> "f"
      [] c = "G" -> "g"
      [] c = "I" -> "i"
      [] c = "P" -> "p"
      [] c = "R" -> "r"
      [] c = "T" -> "t"
      [] c = "U" -> "u"
      [] c = "V" -> "v"
      [] c = "W" -> "w"
      [] OTHER -> c

Lower(s) == [k \in 1..Len(s) |-> LowerChar(s[k])]

\* Python `sub in s` (and SQL LIKE '%sub%'): substring containment
Contains(sub, s) ==
    \E k \in 0..(Len(s) - Len(sub)) : SubSeq(s, k + 1, k + Len(sub)) = sub

\* Python s[a:b] for 0 <= a <= b
Slice(s, a, b) ==
    LET hi == IF b < Len(s) THEN b ELSE Len(s)
    IN  IF a >= hi THEN <<>> ELSE SubSeq(s, a + 1, hi)

\* str.split(sep) for a one-character separator
RECURSIVE Split(_, _)
Split(s, sep) ==
    IF \A k \in 1..Len(s) : s[k] # sep
    THEN <<s>>
    ELSE LET k == CHOOSE k \in 1..Len(s) :
                      s[k] = sep /\ \A j \in 1..(k - 1) : s[j] # sep
         IN  <<SubSeq(s, 1, k - 1)>> \o Split(SubSeq(s, k + 1, Len(s)), sep)

Digits == <<"0", "1", "2", "3", "4", "5", "6", "7", "8", "9">>

DigitVal(c) == (CHOOSE k \in 1..10 : Digits[k] = c) - 1

\* whether int(s) parses (decimal digits only); otherwise it raises ValueError
IsInt(s) == Len(s) > 0 /\ \A k \in 1..Len(s) : s[k] \in Range(Digits)

\* int(s)
RECURSIVE ParseInt(_)
ParseInt(s) ==
    IF Len(s) = 0 THEN 0
    ELSE 10 * ParseInt(SubSeq(s, 1, Len(s) - 1)) + DigitVal(s[Len(s)])

\* str(n) for n >= 0
RECURSIVE Str(_)
Str(n) ==
    IF n < 10 THEN <<Digits[n + 1]>>
    ELSE Str(n \div 10) \o <<Digits[(n % 10) + 1]>>

\* the ascending sequence of a set of integers
RECURSIVE Ascending(_)
Ascending(S) ==
    IF S = {} THEN <<>>
    ELSE LET m == CHOOSE m \in S : \A n \in S : m <= n
         IN  <<m>> \o Ascending(S \ {m})

--------------------------------------------------------------------------
\* The document collection: entity tables (api/db_models/models.py).
\* Items 1..MaxItems may be present; the tables hold a few more rows.

Date(y, m, d) == [year |-> y, month |-> m, day |-> d]

KeyTopic ==
    [t \in 1..2 |-> [id |-> t, name |-> IF t = 1 THEN <<"T", "1">> ELSE <<"T", "2">>]]

CovidTag ==
    [t \in 1..2 |-> [id |-> t, name |-> IF t = 1 THEN <<"V", "1">> ELSE <<"V", "2">>]]

Author ==
    [a \in 1..3 |->
        CASE a = 1 -> [id |-> 1, authoring_organization |-> <<"W", "h", "o">>,
                       type_of_authoring_organization |-> <<"I", "g", "o">>,
                       acronym |-> <<"W">>]
          [] a = 2 -> [id |-> 2, authoring_organization |-> <<"C", "d", "u">>,
                       type_of_authoring_organization |-> <<"G", "o", "v">>,
                       acronym |-> <<>>]
          [] a = 3 -> [id |-> 3, authoring_organization |-> <<"U", "n">>,
                       type_of_authoring_organization |-> <<"I", "g", "o">>,
                       acronym |-> <<"U">>]]

Funder ==
    [f \in 1..2 |-> [id |-> f, name |-> IF f = 1 THEN <<"F", "a">> ELSE <<"F", "b">>]]

Event ==
    [e \in 1..2 |-> [id |-> e, name |-> IF e = 1 THEN <<"E", "1">> ELSE <<"E", "2">>]]

\* the text of a file longer than the search reads: 1000 characters, and more
\* after them
LongText == [k \in 1..1000 |-> "z"]

Rep == <<"R", "e", "p">>
Pol == <<"P", "o", "l">>

Item ==
    [i \in 1..6 |->
        CASE i = 1 -> [id |-> 1, date |-> Some(Date(2020, 3, 5)),
                       title |-> Some(<<"A", "b">>), description |-> <<"c", "d">>,
                       type_of_record |-> Rep,
                       key_topics |-> {1, 2}, covid_tags |-> {1},
                       authors |-> {1, 2},
                       funders |-> {1}, events |-> {1},
                       search_text |->
                           <<"a", "b", " ", "c", "d", " ", "w", "h", "o", " ", "c", "d", "u", " ", "t", "1", " ", "t", "2", " ", "e", "1">>,
                       file_search_text |-> <<>>]
          [] i = 2 -> [id |-> 2, date |-> Some(Date(2019, 7, 1)),
                       title |-> Some(<<"c", "d">>), description |-> <<"x", "A">>,
                       type_of_record |-> Rep,
                       key_topics |-> {1}, covid_tags |-> {1, 2},
                       authors |-> {1},
                       funders |-> {2}, events |-> {},
                       search_text |->
                           <<"c", "d", " ", "x", "a", " ", "w", "h", "o", " ", "t", "1">>,
                       file_search_text |-> <<"z", "b">>]
          [] i = 3 -> [id |-> 3, date |-> None,
                       title |-> Some(<<"b", "a">>), description |-> <<"d">>,
                       type_of_record |-> Pol,
                       key_topics |-> {2}, covid_tags |-> {},
                       authors |-> {2, 3},
                       funders |-> {1, 2}, events |-> {1, 2},
                       search_text |->
                           <<"b", "a", " ", "d", " ", "c", "d", "u", " ", "u", "n", " ", "t", "2", " ", "e", "1", " ", "e", "2">>,
                       file_search_text |-> <<>>]
          [] i = 4 -> [id |-> 4, date |-> Some(Date(2018, 1, 9)),
                       title |-> None, description |-> <<"a", "b">>,
                       type_of_record |-> Pol,
                       key_topics |-> {}, covid_tags |-> {2},
                       authors |-> {1, 3},
                       funders |-> {}, events |-> {2},
                       search_text |->
                           <<"a", "b", " ", "w", "h", "o", " ", "u", "n", " ", "e", "2">>,
                       file_search_text |-> LongText \o <<"d">>]
          [] i = 5 -> [id |-> 5, date |-> Some(Date(2020, 1, 2)),
                       title |-> Some(<<"A", "b">>), description |-> <<"b">>,
                       type_of_record |-> Rep,
                       key_topics |-> {1}, covid_tags |-> {1},
                       authors |-> {1, 3},
                       funders |-> {1}, events |-> {2},
                       search_text |->
                           <<"a", "b", " ", "b", " ", "w", "h", "o", " ", "u", "n", " ", "t", "1", " ", "e", "2">>,
                       file_search_text |-> <<>>]
          [] i = 6 -> [id |-> 6, date |-> Some(Date(2019, 7, 1)),
                       title |-> Some(<<"c", "d">>), description |-> <<"a">>,
                       type_of_record |-> Pol,
                       key_topics |-> {2}, covid_tags |-> {},
                       authors |-> {2},
                       funders |-> {2}, events |-> {1},
                       search_text |->
                           <<"c", "d", " ", "a", " ", "c", "d", "u", " ", "t", "2", " ", "e", "1">>,
                       file_search_text |-> <<>>]]

\* The search_text of an item is its title, its description and the names of
\* its authors, key topics and events, in lower case.

\* get_all_items: select(i for i in db.Item)
get_all_items(collection) == collection

--------------------------------------------------------------------------
\* apply_filters_to_items: one select per filter key, in the dict's order

tag_sets == {<<"k", "e", "y", "_", "t", "o", "p", "i", "c", "s">>}

KeyTopicsKey == <<"k", "e", "y", "_", "t", "o", "p", "i", "c", "s">>
CovidTagsKey == <<"c", "o", "v", "i", "d", "_", "t", "a", "g", "s">>
AuthorIdKey == <<"a", "u", "t", "h", "o", "r", ".", "i", "d">>
AuthorTypeKey ==
    <<"a", "u", "t", "h", "o", "r", ".", "t", "y", "p", "e", "_", "o", "f", "_", "a", "u", "t", "h", "o", "r", "i", "n", "g", "_", "o", "r", "g", "a", "n", "i", "z", "a", "t", "i", "o", "n">>
FunderNameKey == <<"f", "u", "n", "d", "e", "r", ".", "n", "a", "m", "e">>
EventNameKey == <<"e", "v", "e", "n", "t", ".", "n", "a", "m", "e">>
YearsKey == <<"y", "e", "a", "r", "s">>
TypeOfRecordKey == <<"t", "y", "p", "e", "_", "o", "f", "_", "r", "e", "c", "o", "r", "d">>

RangeWord == <<"r", "a", "n", "g", "e">>
NullWord == <<"n", "u", "l", "l">>

\* the linked collection of an item named entity_name + "s"
LinkedRows(i, entity_name) ==
    CASE entity_name = <<"a", "u", "t", "h", "o", "r">> ->
             {Author[a] : a \in Item[i].authors}
      [] entity_name = <<"f", "u", "n", "d", "e", "r">> ->
             {Funder[f] : f \in Item[i].funders}
      [] entity_name = <<"e", "v", "e", "n", "t">> ->
             {Event[e] : e \in Item[i].events}

LinkedEntities ==
    {<<"a", "u", "t", "h", "o", "r">>, <<"f", "u", "n", "d", "e", "r">>,
     <<"e", "v", "e", "n", "t">>}

\* str(getattr(j, linked_field)) of a linked row
LinkedValue(j, linked_field) ==
    CASE linked_field = <<"i", "d">> -> Str(j.id)
      [] linked_field = <<"n", "a", "m", "e">> -> j.name
      [] linked_field = Split(AuthorTypeKey, ".")[2] ->
             j.type_of_authoring_organization

FilterByTag_EveryValue(items, allowed_values) ==
    Distinct([i \in items |->
        IF \A v \in Range(allowed_values) :
               \E j \in Item[i].key_topics : KeyTopic[j].name = v
        THEN 1 ELSE 0])

\* field in tag_sets: items having a key topic whose name is allowed
FilterByTag(items, allowed_values) ==
    Distinct([i \in items |->
        Cardinality({j \in Item[i].key_topics :
                        KeyTopic[j].name \in Range(allowed_values)})])

\* "." in field: items having a linked row whose attribute is allowed
FilterByLinked(items, field, allowed_values) ==
    LET field_arr == Split(field, ".")
        entity_name == field_arr[1]
        linked_field == field_arr[2]
    IN  IF entity_name \notin LinkedEntities
        THEN Raise("AttributeError")
        ELSE Ok(Distinct([i \in items |->
                   Cardinality({j \in LinkedRows(i, entity_name) :
                       LinkedValue(j, linked_field) \in Range(allowed_values)})]))

FilterByYears_ExclusiveEnd(items, allowed_values) ==
    IF Len(allowed_values) = 0
    THEN Raise("IndexError")
    ELSE IF ~Contains(RangeWord, allowed_values[1])
    THEN Ok(RowsOf({i \in items :
               /\ ~IsNone(Item[i].date)
               /\ Str(Val(Item[i].date).year) \in Range(allowed_values)}))
    ELSE LET range == Slice(Split(allowed_values[1], "_"), 1, 3)
         IN  IF Len(range) = 0 THEN Raise("IndexError")
             ELSE IF range[1] # NullWord /\ ~IsInt(range[1]) THEN Raise("ValueError")
             ELSE IF Len(range) = 1 THEN Raise("IndexError")
             ELSE IF range[2] # NullWord /\ ~IsInt(range[2]) THEN Raise("ValueError")
             ELSE LET start == IF range[1] # NullWord THEN ParseInt(range[1]) ELSE 0
                      end == IF range[2] # NullWord THEN ParseInt(range[2]) ELSE 9999
                  IN  Ok(RowsOf({i \in items :
                            /\ ~IsNone(Item[i].date)
                            /\ Val(Item[i].date).year >= start
                            /\ Val(Item[i].date).year < end}))

FilterByYears_OpenEndsUnbounded(items, allowed_values) ==
    IF Len(allowed_values) = 0
    THEN Raise("IndexError")
    ELSE IF ~Contains(RangeWord, allowed_values[1])
    THEN Ok(RowsOf({i \in items :
               /\ ~IsNone(Item[i].date)
               /\ Str(Val(Item[i].date).year) \in Range(allowed_values)}))
    ELSE LET range == Slice(Split(allowed_values[1], "_"), 1, 3)
         IN  IF Len(range) = 0 THEN Raise("IndexError")
             ELSE IF range[1] # NullWord /\ ~IsInt(range[1]) THEN Raise("ValueError")
             ELSE IF Len(range) = 1 THEN Raise("IndexError")
             ELSE IF range[2] # NullWord /\ ~IsInt(range[2]) THEN Raise("ValueError")
             ELSE LET start == IF range[1] # NullWord THEN ParseInt(range[1]) ELSE 0
                      end == IF range[2] # NullWord THEN ParseInt(range[2]) ELSE 9999
                  IN  Ok(RowsOf({i \in items :
                            IF IsNone(Item[i].date)
                            THEN range[1] = NullWord /\ range[2] = NullWord
                            ELSE /\ Val(Item[i].date).year >= start
                                 /\ Val(Item[i].date).year <= end}))

\* field == "years": a list of years, or a range in the first value
FilterByYears(items, allowed_values) ==
    IF Len(allowed_values) = 0
    THEN Raise("IndexError")
    ELSE IF ~Contains(RangeWord, allowed_values[1])
    THEN Ok(RowsOf({i \in items :
               /\ ~IsNone(Item[i].date)
               /\ Str(Val(Item[i].date).year) \in Range(allowed_values)}))
    ELSE LET range == Slice(Split(allowed_values[1], "_"), 1, 3)
         IN  IF Len(range) = 0 THEN Raise("IndexError")
             ELSE IF range[1] # NullWord /\ ~IsInt(range[1]) THEN Raise("ValueError")
             ELSE IF Len(range) = 1 THEN Raise("IndexError")
             ELSE IF range[2] # NullWord /\ ~IsInt(range[2]) THEN Raise("ValueError")
             ELSE LET start == IF range[1] # NullWord THEN ParseInt(range[1]) ELSE 0
                      end == IF range[2] # NullWord THEN ParseInt(range[2]) ELSE 9999
                  IN  Ok(RowsOf({i \in items :
                            /\ ~IsNone(Item[i].date)
                            /\ Val(Item[i].date).year >= start
                            /\ Val(Item[i].date).year <= end}))

\* any other field: getattr(i, field) in allowed_values. type_of_record is a
\* plain attribute of Item; covid_tags is a collection of CovidTag, which the
\* store cannot compare with strings; no other name used is an attribute.
FilterByAttribute(items, field, allowed_values) ==
    IF field = CovidTagsKey
    THEN Raise("TypeError")
    ELSE IF field # TypeOfRecordKey
    THEN Raise("AttributeError")
    ELSE Ok(RowsOf({i \in items : Item[i].type_of_record \in Range(allowed_values)}))

\* the body of the loop over filters, for one key
ApplyFilterKey(items, field, allowed_values) ==
    IF field \in tag_sets THEN Ok(FilterByTag(items, allowed_values))
    ELSE IF Contains(<<".">>, field) THEN FilterByLinked(items, field, allowed_values)
    ELSE IF field = YearsKey THEN FilterByYears(items, allowed_values)
    ELSE FilterByAttribute(items, field, allowed_values)

ApplyFilterKeys_FirstOnly(res, fs) ==
    IF Len(fs) = 0 \/ res.error # NoError THEN res
    ELSE ApplyFilterKey(ItemsOf(res), fs[1][1], fs[1][2])

\* the loop over filters: each key narrows the query the previous one left
RECURSIVE ApplyFilterKeys(_, _)
ApplyFilterKeys(res, fs) ==
    IF Len(fs) = 0 \/ res.error # NoError THEN res
    ELSE ApplyFilterKeys(ApplyFilterKey(ItemsOf(res), fs[1][1], fs[1][2]), Tail(fs))

ApplySearchText_WholeFile(items, text) ==
    LET cur_search_text == Lower(Val(text))
    IN  {i \in items :
           \/ Contains(cur_search_text, Item[i].search_text)
           \/ Contains(cur_search_text, Item[i].file_search_text)}

max_chars == 1000

\* the search-text select that ends apply_filters_to_items
ApplySearchText(items, text) ==
    LET cur_search_text == Lower(Val(text))
    IN  {i \in items :
           \/ Contains(cur_search_text, Item[i].search_text)
           \/ Contains(cur_search_text,
                       Slice(Item[i].file_search_text, 0, max_chars))}

\* the search text narrows what the loop over filters left
FilterBySearchText(res, text) ==
    IF res.error # NoError THEN res
    ELSE IF ~IsNone(text) /\ Val(text) # <<>>
    THEN Ok(RowsOf(ApplySearchText(ItemsOf(res), text)))
    ELSE res

apply_filters_to_items(items, fs, text) ==
    FilterBySearchText(ApplyFilterKeys(Ok(RowsOf(items)), fs), text)

--------------------------------------------------------------------------
\* apply_ordering_to_items

\* The order in which the store returns rows it was not asked to order: any
\* arrangement of the collection. An ORDER BY leaves rows with equal keys in it.
Scans(ids) ==
    {s \in [1..Cardinality(ids) -> ids] :
        \A a, b \in 1..Cardinality(ids) : a # b => s[a] # s[b]}

\* the rows of a scan that a query selects
Restrict(scan, ids) == SelectSeq(scan, LAMBDA i : i \in ids)

Reverse(s) == [k \in 1..Len(s) |-> s[Len(s) + 1 - k]]

\* a stable ascending sort by key[row]: each row is inserted after the rows
\* whose key is not greater
RECURSIVE InsertSorted(_, _, _)
InsertSorted(sorted, x, key) ==
    IF Len(sorted) = 0 THEN <<x>>
    ELSE IF key[x] < key[sorted[1]] THEN <<x>> \o sorted
    ELSE <<sorted[1]>> \o InsertSorted(Tail(sorted), x, key)

RECURSIVE StableSort(_, _)
StableSort(s, key) ==
    IF Len(s) = 0 THEN <<>>
    ELSE InsertSorted(StableSort(SubSeq(s, 1, Len(s) - 1), key), s[Len(s)], key)

\* the store's order of dates
DateLess(d, e) ==
    \/ d.year < e.year
    \/ d.year = e.year /\ d.month < e.month
    \/ d.year = e.year /\ d.month = e.month /\ d.day < e.day

\* the store's order of strings: by character, a prefix first
Alphabet == <<" ", "A", "B", "C", "D", "U", "W", "a", "b", "c", "d", "x", "z">>
CharRank(c) == CHOOSE k \in 1..Len(Alphabet) : Alphabet[k] = c

RECURSIVE StringLess(_, _)
StringLess(s, t) ==
    IF Len(t) = 0 THEN FALSE
    ELSE IF Len(s) = 0 THEN TRUE
    ELSE IF s[1] # t[1] THEN CharRank(s[1]) < CharRank(t[1])
    ELSE StringLess(Tail(s), Tail(t))

OrderedBefore_NullsAsLargest(x, y, column, desc) ==
    LET kx == IF column = "date" THEN Item[x].date ELSE Item[x].title
        ky == IF column = "date" THEN Item[y].date ELSE Item[y].title
        Less(a, b) == IF column = "date" THEN DateLess(a, b) ELSE StringLess(a, b)
    IN  IF IsNone(kx) THEN desc /\ ~IsNone(ky)
        ELSE IF IsNone(ky) THEN ~desc
        ELSE IF desc THEN Less(Val(ky), Val(kx))
        ELSE Less(Val(kx), Val(ky))

\* ORDER BY i.<column> [DESC] NULLS LAST: whether row x goes before row y
OrderedBefore(x, y, column, desc) ==
    LET kx == IF column = "date" THEN Item[x].date ELSE Item[x].title
        ky == IF column = "date" THEN Item[y].date ELSE Item[y].title
        Less(a, b) == IF column = "date" THEN DateLess(a, b) ELSE StringLess(a, b)
    IN  IF IsNone(kx) THEN FALSE
        ELSE IF IsNone(ky) THEN TRUE
        ELSE IF desc THEN Less(Val(ky), Val(kx))
        ELSE Less(Val(kx), Val(ky))

\* the relevance of a document whose title is not None
Relevance(d, cur_search_text) ==
    IF Contains(cur_search_text, Lower(Val(Item[d].title))) THEN 3
    ELSE IF Contains(cur_search_text, Lower(Item[d].description)) THEN 2
    ELSE 0

\* the outcome of ordering: a query (with the rows one execution of it
\* returns) or a list, or the exception raised
Ordered(kind, rows) == [error |-> NoError, kind |-> kind, rows |-> rows]
RaiseOrdering(e) == [error |-> e, kind |-> "none", rows |-> <<>>]

apply_ordering_to_items_AlwaysScoring(items, by, desc, text, scan) ==
    LET pool == Restrict(scan, items)
    IN  IF by = "relevance"
        THEN IF IsNone(text) \/ \E d \in items : IsNone(Item[d].title)
             THEN RaiseOrdering("AttributeError")
             ELSE LET relevance == [d \in items |-> Relevance(d, Lower(Val(text)))]
                  IN  Ordered("list", Reverse(StableSort(pool, relevance)))
        ELSE IF by = "date" \/ by = "title"
        THEN LET position == [x \in items |->
                     Cardinality({y \in items : OrderedBefore(y, x, by, desc)})]
             IN  Ordered("query", StableSort(pool, position))
        ELSE Ordered("query", pool)

apply_ordering_to_items(items, by, desc, text, scan) ==
    LET pool == Restrict(scan, items)
    IN  IF by = "relevance" /\ ~IsNone(text) /\ Val(text) # <<>>
        THEN LET cur_search_text == Lower(Val(text))
             IN  IF \E d \in items : IsNone(Item[d].title)
                 THEN RaiseOrdering("AttributeError")
                 ELSE LET relevance == [d \in items |-> Relevance(d, cur_search_text)]
                      IN  Ordered("list", Reverse(StableSort(pool, relevance)))
        ELSE IF by = "date" \/ by = "title"
        THEN LET position == [x \in items |->
                     Cardinality({y \in items : OrderedBefore(y, x, by, desc)})]
             IN  Ordered("query", StableSort(pool, position))
        ELSE Ordered("query", pool)

--------------------------------------------------------------------------
\* get_metadata_value_counts

\* to_check: the facet categories, each with the filter key it relaxes
to_check ==
    <<[key |-> "years", filter_field |-> YearsKey],
      [key |-> "events", filter_field |-> EventNameKey],
      [key |-> "key_topics", filter_field |-> KeyTopicsKey],
      [key |-> "authors", filter_field |-> AuthorIdKey],
      [key |-> "author_types", filter_field |-> AuthorTypeKey],
      [key |-> "funders", filter_field |-> FunderNameKey],
      [key |-> "types_of_record", filter_field |-> TypeOfRecordKey]>>

CategoryKeys == {to_check[n].key : n \in 1..Len(to_check)}

\* the filters of every other category, and the search text, on all items
get_items_if_other_filters_in_category_not_applied(items, fs, filter_field, text) ==
    LET filters_not_for_field == SelectSeq(fs, LAMBDA kv : kv[1] # filter_field)
    IN  apply_filters_to_items(items, filters_not_for_field, text)

\* The rows one item adds to the select of a category, linked rows in the
\* order of their ids: `test` is the value the exclusion test reads, `cols`
\* the columns selected beside count(i).
CategoryRows(i, key) ==
    LET topics == Ascending(Item[i].key_topics)
        authors == Ascending(Item[i].authors)
        funders == Ascending(Item[i].funders)
        events == Ascending(Item[i].events)
    IN  CASE key = "years" ->
                 IF IsNone(Item[i].date)
                 THEN <<[test |-> None, cols |-> <<None>>]>>
                 ELSE <<[test |-> Some(Str(Val(Item[i].date).year)),
                         cols |-> <<Some(Val(Item[i].date).year)>>]>>
          [] key = "events" ->
                 [n \in 1..Len(events) |->
                     [test |-> Some(Event[events[n]].name),
                      cols |-> <<Some(Event[events[n]].name)>>]]
          [] key = "key_topics" ->
                 [n \in 1..Len(topics) |->
                     [test |-> Some(KeyTopic[topics[n]].name),
                      cols |-> <<Some(KeyTopic[topics[n]].name)>>]]
          [] key = "authors" ->
                 [n \in 1..Len(authors) |->
                     [test |-> Some(Author[authors[n]].authoring_organization),
                      cols |-> <<Some(Author[authors[n]].authoring_organization),
                                 Author[authors[n]].acronym,
                                 Author[authors[n]].id>>]]
          [] key = "author_types" ->
                 [n \in 1..Len(authors) |->
                     [test |-> Some(Author[authors[n]].type_of_authoring_organization),
                      cols |-> <<Some(Author[authors[n]].type_of_authoring_organization)>>]]
          [] key = "funders" ->
                 [n \in 1..Len(funders) |->
                     [test |-> Some(Funder[funders[n]].name),
                      cols |-> <<Some(Funder[funders[n]].name)>>]]
          [] key = "types_of_record" ->
                 <<[test |-> Some(Item[i].type_of_record),
                    cols |-> <<Some(Item[i].type_of_record)>>]>>

\* `value not in exclude and (value is not None or allow_none)` as the store
\* evaluates it: NOT IN of an empty list is true, of a null value is not
NotExcluded(value, exclude) ==
    LET allow_none == NullWord \notin Range(exclude)
        not_in == IF Len(exclude) = 0 THEN TRUE
                  ELSE ~IsNone(value) /\ Val(value) \notin Range(exclude)
    IN  not_in /\ (~IsNone(value) \/ allow_none)

\* the rows of a category that pass the exclusion test, item by item
RECURSIVE SelectedRows(_, _, _)
SelectedRows(pool, key, exclude) ==
    IF Len(pool) = 0 THEN <<>>
    ELSE SelectSeq(CategoryRows(pool[1], key), LAMBDA r : NotExcluded(r.test, exclude))
             \o SelectedRows(Tail(pool), key, exclude)

\* the distinct elements of a sequence, in the order of their first appearance
RECURSIVE FirstAppearances(_)
FirstAppearances(s) ==
    IF Len(s) = 0 THEN <<>>
    ELSE LET before == FirstAppearances(SubSeq(s, 1, Len(s) - 1))
         IN  IF s[Len(s)] \in Range(before) THEN before
             ELSE Append(before, s[Len(s)])

\* get_order_by_func: desc(x) of (w, x, y, z) for the authors category, the
\* acronym; desc(y) of (x, y) for every other, the count. The rank of a
\* group is the key of an ascending sort.
get_order_by_func(include_id_and_acronym, groups, count) ==
    IF include_id_and_acronym
    THEN [g \in Range(groups) |->
             Cardinality({h \in Range(groups) : StringLess(g[2], h[2])})]
    ELSE [g \in Range(groups) |-> 0 - count[g]]

\* whether item i has a row of group g that passes the exclusion test
HasGroup(i, g, key, exclude) ==
    \E r \in Range(CategoryRows(i, key)) :
        r.cols = g /\ NotExcluded(r.test, exclude)

\* the tuples of by_value: the columns of each group around its count
ByValue(include_id_and_acronym, sorted, count) ==
    [n \in 1..Len(sorted) |->
        IF include_id_and_acronym
        THEN <<sorted[n][1], sorted[n][2], count[sorted[n]], sorted[n][3]>>
        ELSE <<sorted[n][1], count[sorted[n]]>>]

\* count(i) of each group, and the groups in the order of order_by
CountedGroups(key, field_items, exclude, groups, count) ==
    [unique |-> Cardinality({i \in field_items :
                   \E g \in Range(groups) : HasGroup(i, g, key, exclude)}),
     by_value |-> ByValue(key = "authors",
                      StableSort(groups,
                          get_order_by_func(key = "authors", groups, count)),
                      count)]

GroupCounts_JoinRows(key, field_items, exclude, groups) ==
    CountedGroups(key, field_items, exclude, groups,
        [g \in Range(groups) |->
            Cardinality({r \in UNION {{<<i, n>> : n \in 1..Len(CategoryRows(i, key))} :
                                         i \in field_items} :
                /\ CategoryRows(r[1], key)[r[2]].cols = g
                /\ NotExcluded(CategoryRows(r[1], key)[r[2]].test, exclude)})])

\* count(i) of each group: the distinct items that have a row of the group
GroupCounts(key, field_items, exclude, groups) ==
    CountedGroups(key, field_items, exclude, groups,
        [g \in Range(groups) |->
            Cardinality({i \in field_items : HasGroup(i, g, key, exclude)})])

\* the columns of a sequence of rows
ColsOf(rows) == [n \in 1..Len(rows) |-> rows[n].cols]

\* one category of the output: unique and by_value over field_items
CategoryCounts(key, field_items, exclude, scan) ==
    GroupCounts(key, field_items, exclude,
        FirstAppearances(
            ColsOf(SelectedRows(Restrict(scan, field_items), key, exclude))))

RaiseCounts(e) == [error |-> e]

\* the output of the loop, or the exception of the first category that raises
CountCategories(field_items, exclude, scan) ==
    IF \E n \in 1..Len(to_check) : field_items[n].error # NoError
    THEN RaiseCounts(field_items[
             CHOOSE n \in 1..Len(to_check) :
                 /\ field_items[n].error # NoError
                 /\ \A k \in 1..(n - 1) : field_items[k].error = NoError].error)
    ELSE [error |-> NoError,
          output |-> [key \in CategoryKeys |->
              CategoryCounts(
                  key,
                  ItemsOf(field_items[CHOOSE n \in 1..Len(to_check) :
                                          to_check[n].key = key]),
                  exclude, scan)]]

\* the loop over to_check; `items` is accepted and never read
get_metadata_value_counts(items, all_items, exclude, fs, text, scan) ==
    CountCategories(
        [n \in 1..Len(to_check) |->
            get_items_if_other_filters_in_category_not_applied(
                all_items, fs, to_check[n].filter_field, text)],
        exclude, scan)

--------------------------------------------------------------------------
\* get_matching_instances (api/search.py): the authors, events and key topics
\* of the filtered items whose name contains the search text, each with the
\* number of filtered items that have it. The lists are held as sets.

\* cur_search_text in getattr(m, field).lower()
InstanceMatches(cur_search_text, name) == Contains(cur_search_text, Lower(name))

ReferencingItems_AnyInstance(items, class, x) ==
    {i \in items :
        CASE class = "Author" -> Item[i].authors # {}
          [] class = "Event" -> Item[i].events # {}
          [] class = "Key_Topic" -> Item[i].key_topics # {}}

\* items.filter(items_query(match)): the items that have the instance
ReferencingItems(items, class, x) ==
    {i \in items :
        CASE class = "Author" -> x \in Item[i].authors
          [] class = "Event" -> x \in Item[i].events
          [] class = "Key_Topic" ->
                 x \in {KeyTopic[t].name : t \in Item[i].key_topics}}

\* the empty dict
EmptyDict == <<>>

get_matching_instances(items, text, explain) ==
    IF IsNone(text) \/ Val(text) = <<>> THEN EmptyDict
    ELSE [Author |->
              {[id |-> a,
                n_items |-> Cardinality(ReferencingItems(items, "Author", a))] :
                  a \in {a \in UNION {Item[i].authors : i \in items} :
                            InstanceMatches(Lower(Val(text)),
                                            Author[a].authoring_organization)}},
          Event |->
              {[id |-> e,
                n_items |-> Cardinality(ReferencingItems(items, "Event", e))] :
                  e \in {e \in UNION {Item[i].events : i \in items} :
                            InstanceMatches(Lower(Val(text)), Event[e].name)}},
          Key_Topic |->
              {[name |-> v,
                n_items |-> Cardinality(ReferencingItems(items, "Key_Topic", v))] :
                  v \in {v \in UNION {{KeyTopic[t].name : t \in Item[i].key_topics} :
                                          i \in items} :
                            InstanceMatches(Lower(Val(text)), v)}}]

--------------------------------------------------------------------------
\* get_ordered_items_and_filter_counts and get_search

\* keyword arguments of a search
Kwargs(p, ps, fs, text, by, desc, prev, explain) ==
    [page |-> p, pagesize |-> ps, filters |-> fs, search_text |-> text,
     order_by |-> by, is_desc |-> desc, preview |-> prev,
     explain_results |-> explain]

RaiseResults(e, filtered_items, counts) ==
    [error |-> e, filtered_items |-> filtered_items, filter_counts |-> counts,
     ordered_items |-> RaiseOrdering(e), other_instances |-> EmptyDict]

\* the tuple returned, with the filtered items it was made of
Results(filtered_items, counts, ordered_items, other_instances) ==
    IF ordered_items.error # NoError
    THEN RaiseResults(ordered_items.error, filtered_items, counts)
    ELSE [error |-> NoError,
          filtered_items |-> filtered_items,
          filter_counts |-> counts,
          ordered_items |-> ordered_items,
          other_instances |-> other_instances]

\* order the filtered items once the facets are counted
OrderCounted(kw, scan, filtered_items, other_instances, counts) ==
    IF counts.error # NoError
    THEN RaiseResults(counts.error, filtered_items, counts)
    ELSE Results(filtered_items, counts,
                 apply_ordering_to_items(ItemsOf(filtered_items), kw.order_by,
                                         kw.is_desc, kw.search_text, scan),
                 other_instances)

\* match instances when previewing, count the facets
CountFiltered(collection, kw, scan, filtered_items) ==
    IF filtered_items.error # NoError
    THEN RaiseResults(filtered_items.error, filtered_items, RaiseCounts("NotYet"))
    ELSE OrderCounted(kw, scan, filtered_items,
             IF kw.preview
             THEN get_matching_instances(ItemsOf(filtered_items), kw.search_text,
                                         kw.explain_results)
             ELSE EmptyDict,
             get_metadata_value_counts(ItemsOf(filtered_items),
                 get_all_items(collection), <<>>, kw.filters, kw.search_text,
                 scan))

\* filter, match instances when previewing, count facets, order
get_ordered_items_and_filter_counts(collection, kw, scan) ==
    CountFiltered(collection, kw, scan,
        apply_filters_to_items(get_all_items(collection), kw.filters,
                               kw.search_text))

ListPage_OneBased(rows, p, ps) == Slice(rows, 1 + ps * (p - 1), ps * p)

\* ordered_items[start:end] of the materialized list
ListPage(rows, p, ps) == Slice(rows, 1 + ps * (p - 1) - 1, ps * p)

QueryPage_FirstPage(rows, p, ps) == Slice(rows, 0, ps)

\* Query.page(page, pagesize): LIMIT pagesize OFFSET (page - 1) * pagesize
QueryPage(rows, p, ps) == Slice(rows, (p - 1) * ps, (p - 1) * ps + ps)

Snippets_WithoutTitle(d, cur_search_text) ==
    LET in(s) == Contains(cur_search_text, Lower(s))
    IN  {k \in {"type_of_record"} : in(Item[d].type_of_record)}
        \cup {k \in {"description"} : in(Item[d].description)}
        \cup {k \in {"key_topics"} :
                 \E t \in Item[d].key_topics : in(KeyTopic[t].name)}
        \cup {k \in {"events"} : \E e \in Item[d].events : in(Event[e].name)}
        \cup {k \in {"authors"} :
                 \E a \in Item[d].authors :
                     \/ in(Author[a].authoring_organization)
                     \/ in(Author[a].acronym)}
        \cup {k \in {"funders"} : \E f \in Item[d].funders : in(Funder[f].name)}
        \cup {k \in {"files"} :
                 Contains(cur_search_text, Item[d].file_search_text)}

\* The keys of the snippet map of one returned item. Items of this
\* collection have no link, no sub-organizations and no custom tags. The
\* response holds the keys of each map as data_snippets and the value of its
\* "authors" key as author_snippets.
Snippets(d, cur_search_text) ==
    LET in(s) == Contains(cur_search_text, Lower(s))
    IN  {k \in {"type_of_record"} : in(Item[d].type_of_record)}
        \cup {k \in {"title"} : in(Val(Item[d].title))}
        \cup {k \in {"description"} : in(Item[d].description)}
        \cup {k \in {"key_topics"} :
                 \E t \in Item[d].key_topics : in(KeyTopic[t].name)}
        \cup {k \in {"events"} : \E e \in Item[d].events : in(Event[e].name)}
        \cup {k \in {"authors"} :
                 \E a \in Item[d].authors :
                     \/ in(Author[a].authoring_organization)
                     \/ in(Author[a].acronym)}
        \cup {k \in {"funders"} : \E f \in Item[d].funders : in(Funder[f].name)}
        \cup {k \in {"files"} :
                 Contains(cur_search_text, Item[d].file_search_text)}

\* "<highlight>" + text + "</highlight>", each marker one element
Highlight(s) == <<"<highlight>">> \o s \o <<"</highlight>">>

\* re.sub(pattern, repl, s), the pattern the search text, ignoring case: every
\* occurrence from the left, not overlapping, wrapped in the markers
RECURSIVE HighlightAll(_, _)
HighlightAll(s, cur_search_text) ==
    IF Len(s) < Len(cur_search_text) \/ Len(cur_search_text) = 0 THEN s
    ELSE IF Lower(SubSeq(s, 1, Len(cur_search_text))) = cur_search_text
    THEN Highlight(SubSeq(s, 1, Len(cur_search_text)))
             \o HighlightAll(SubSeq(s, Len(cur_search_text) + 1, Len(s)),
                             cur_search_text)
    ELSE <<s[1]>> \o HighlightAll(Tail(s), cur_search_text)

\* the loop over the authors of a document for "authors.authoring_organization"
RECURSIVE OrganizationPass(_, _)
OrganizationPass(linked, cur_search_text) ==
    IF Len(linked) = 0 THEN <<>>
    ELSE (IF Contains(cur_search_text,
                      Lower(Author[linked[1]].authoring_organization))
          THEN <<[authoring_organization |->
                      HighlightAll(Author[linked[1]].authoring_organization,
                                   cur_search_text),
                  id |-> linked[1]]>>
          ELSE <<>>)
         \o OrganizationPass(Tail(linked), cur_search_text)

\* the loop over the authors of a document for "authors.acronym": `field` is
\* the attribute tested, "acronym" until an author matches and
\* "authoring_organization" for the authors visited after it
RECURSIVE AcronymPass(_, _, _)
AcronymPass(linked, cur_search_text, field) ==
    IF Len(linked) = 0 THEN <<>>
    ELSE IF Contains(cur_search_text,
                     Lower(IF field = "acronym" THEN Author[linked[1]].acronym
                           ELSE Author[linked[1]].authoring_organization))
    THEN <<[authoring_organization |->
                Highlight(Author[linked[1]].authoring_organization),
            id |-> linked[1]]>>
             \o AcronymPass(Tail(linked), cur_search_text, "authoring_organization")
    ELSE AcronymPass(Tail(linked), cur_search_text, field)

\* snippets["authors"] of a returned item: what the two loops append, the
\* item's authors visited in the order the collection iterates in
AuthorSnippets(d, cur_search_text) ==
    OrganizationPass(Restrict(author_order, Item[d].authors), cur_search_text)
        \o AcronymPass(Restrict(author_order, Item[d].authors), cur_search_text,
                       "acronym")

RaiseResponse(e) == [error |-> e]

\* ceil(total / pagesize) for pagesize > 0
Ceil(total, ps) == (total + ps - 1) \div ps

\* The cached tuple holds the ordered items as a Query when they were not
\* materialized: the store runs it again whenever it is counted or paged.
Requery(results, collection, kw, scan) ==
    IF results.ordered_items.kind # "query" THEN results
    ELSE LET again == apply_filters_to_items(get_all_items(collection),
                                             kw.filters, kw.search_text)
         IN  [results EXCEPT
                 !.ordered_items =
                     apply_ordering_to_items(ItemsOf(again), kw.order_by,
                                             kw.is_desc, kw.search_text, scan)]

\* str(kwargs): the names and values of the keyword arguments, as passed
StrOfKwargs(names, kw) == [n \in 1..Len(names) |-> <<names[n], kw[names[n]]>>]

\* the parameters of get_search in the order of its signature, which is the
\* order Search.post passes them in, each by keyword
SearchKwargs ==
    <<"page", "pagesize", "filters", "search_text", "order_by", "is_desc",
      "preview", "explain_results">>

\* the keyword arguments get_search passes on
ItemsKwargs ==
    <<"filters", "search_text", "order_by", "is_desc", "preview",
      "explain_results">>

EmptyCache == [k \in {} |-> 0]

Store_Forgets(cache, key, value) == cache

Store(cache, key, value) ==
    [k \in DOMAIN cache \cup {key} |-> IF k = key THEN value ELSE cache[k]]

\* results = func(...); cache[key] = results, unless func raised
StoreResults(cache, key, results) ==
    [results |-> results,
     cache |-> IF results.error = NoError THEN Store(cache, key, results)
               ELSE cache]

\* cached_items around get_ordered_items_and_filter_counts
cached_items(cache, collection, kw, scan) ==
    IF StrOfKwargs(ItemsKwargs, kw) \in DOMAIN cache
    THEN [results |-> Requery(cache[StrOfKwargs(ItemsKwargs, kw)], collection,
                              kw, scan),
          cache |-> cache]
    ELSE StoreResults(cache, StrOfKwargs(ItemsKwargs, kw),
             get_ordered_items_and_filter_counts(collection, kw, scan))

\* the page of the ordered items, by the pagination of their type
PageOf(ordered_items, p, ps) ==
    IF ordered_items.kind = "list" THEN ListPage(ordered_items.rows, p, ps)
    ELSE QueryPage(ordered_items.rows, p, ps)

\* total: len() of the list, or count() of the query, which counts the
\* distinct items it selects
TotalOf(ordered_items) ==
    IF ordered_items.kind = "list" THEN Len(ordered_items.rows)
    ELSE Cardinality(Range(ordered_items.rows))

\* whether snippets are made
Explaining(kw) ==
    /\ ~kw.preview
    /\ kw.explain_results
    /\ ~IsNone(kw.search_text)
    /\ Val(kw.search_text) # <<>>

\* the response of get_search from the ordered items and their page
Response(kw, res, total, items) ==
    IF res.error # NoError THEN RaiseResponse(res.error)
    ELSE IF Explaining(kw) /\ \E n \in 1..Len(items) : IsNone(Item[items[n]].title)
    THEN RaiseResponse("AttributeError")
    ELSE IF kw.preview
    THEN [error |-> NoError, n_items |-> total,
          other_instances |-> res.other_instances,
          search_text |-> kw.search_text]
    ELSE IF kw.pagesize = 0 THEN RaiseResponse("ZeroDivisionError")
    ELSE IF kw.explain_results
    THEN [error |-> NoError, page |-> kw.page,
          num_pages |-> Ceil(total, kw.pagesize),
          pagesize |-> kw.pagesize, total |-> total,
          num |-> Len(items), data |-> items,
          data_snippets |->
              IF Explaining(kw)
              THEN [n \in 1..Len(items) |->
                       Snippets(items[n], Lower(Val(kw.search_text)))]
              ELSE <<>>,
          author_snippets |->
              IF Explaining(kw)
              THEN [n \in 1..Len(items) |->
                       AuthorSnippets(items[n], Lower(Val(kw.search_text)))]
              ELSE <<>>,
          filter_counts |-> res.filter_counts.output]
    ELSE [error |-> NoError, page |-> kw.page,
          num_pages |-> Ceil(total, kw.pagesize),
          pagesize |-> kw.pagesize, total |-> total,
          num |-> Len(items), data |-> items]

\* paginate the ordered items and respond
Paginate(kw, inner) ==
    [response |-> Response(kw, inner.results,
                           TotalOf(inner.results.ordered_items),
                           PageOf(inner.results.ordered_items, kw.page,
                                  kw.pagesize)),
     results |-> inner.results,
     items_cache |-> inner.cache]

\* the body of get_search
get_search(cache, collection, kw, scan) ==
    Paginate(kw, cached_items(cache, collection, kw, scan))

\* results = func(...); cache[key] = results, unless func raised
StoreResponse(cache, key, out) ==
    [hit |-> FALSE, response |-> out.response, results |-> out.results,
     search_cache |-> IF out.response.error = NoError
                      THEN Store(cache, key, out.response) ELSE cache,
     items_cache |-> out.items_cache]

\* kwargs of wrapper(*func_args, **kwargs) when the first n arguments of the
\* call are passed by position: the names of the others
KeywordsPassed(n) == SubSeq(SearchKwargs, n + 1, Len(SearchKwargs))

cached_Recomputing(cache, items, collection, n, kw, scan) ==
    StoreResponse(cache, StrOfKwargs(KeywordsPassed(n), kw),
                  get_search(items, collection, kw, scan))

\* cached around get_search, called with n arguments in func_args: the key is
\* str(kwargs)
cached(cache, items, collection, n, kw, scan) ==
    IF StrOfKwargs(KeywordsPassed(n), kw) \in DOMAIN cache
    THEN [hit |-> TRUE, response |-> cache[StrOfKwargs(KeywordsPassed(n), kw)],
          search_cache |-> cache, items_cache |-> items]
    ELSE StoreResponse(cache, StrOfKwargs(KeywordsPassed(n), kw),
                       get_search(items, collection, kw, scan))

--------------------------------------------------------------------------
\* Requests: the filter specs and search texts the model draws from

\* the filter keys of ItemFilter that apply_filters_to_items tells apart
FilterKeys ==
    <<KeyTopicsKey, AuthorIdKey, AuthorTypeKey, FunderNameKey, EventNameKey,
      YearsKey, TypeOfRecordKey>>

Us == <<"_">>

\* range_<a>_<b>
RangeValue(a, b) == RangeWord \o Us \o a \o Us \o b

AllowedLists(k) ==
    CASE k = 1 -> {<<>>, <<KeyTopic[1].name>>, <<KeyTopic[2].name, KeyTopic[1].name>>}
      [] k = 2 -> {<<>>, <<Str(1)>>, <<Str(3), Str(2)>>}
      [] k = 3 -> {<<Author[1].type_of_authoring_organization>>}
      [] k = 4 -> {<<Funder[1].name>>}
      [] k = 5 -> {<<Event[2].name>>}
      [] k = 6 -> {<<>>, <<Str(2019)>>, <<Str(2019), Str(2020)>>,
                   <<RangeValue(Str(2019), NullWord)>>,
                   <<RangeValue(NullWord, Str(2019))>>,
                   <<RangeValue(Str(2020), Str(2019))>>,
                   <<RangeWord \o Us \o Str(2019)>>}
      [] k = 7 -> {<<>>, <<Rep>>, <<Pol, Rep>>}

\* a filter spec: a dict, as the sequence of its (key, allowed values) pairs
FilterSpecsOver(S) ==
    LET idx == Ascending(S)
        lists == UNION {AllowedLists(k) : k \in S}
    IN  {[n \in 1..Len(idx) |-> <<FilterKeys[idx[n]], f[idx[n]]>>] :
            f \in {g \in [S -> lists] : \A k \in S : g[k] \in AllowedLists(k)}}

FilterSpecs ==
    UNION {FilterSpecsOver(S) :
              S \in {T \in SUBSET (1..Len(FilterKeys)) : Cardinality(T) <= MaxFilterKeys}}

SearchTexts == {None, Some(<<>>), Some(<<"B">>)}

\* the collections: any items of the table, at least one
Collections == (SUBSET (1..MaxItems)) \ {{}}

NotYet == Raise("NotYet")

--------------------------------------------------------------------------
\* Before any call: nothing computed, both caches empty

NoCounts == RaiseCounts("NotYet")
NotOrdered == RaiseOrdering("NotYet")
NoResponse == RaiseResponse("NotYet")

NothingComputed ==
    /\ store_order = Ascending(db)
    /\ filter_counts = NoCounts
    /\ ordered = NotOrdered
    /\ response = NoResponse
    /\ earlier = NoResponse
    /\ search_cache = EmptyCache
    /\ items_cache = EmptyCache
    /\ calls = <<>>

\* the authors of a document are visited in the order of their ids, and no
\* other request is being served
Fresh ==
    /\ NothingComputed
    /\ author_order = Ascending(DOMAIN Author)
    /\ in_flight = <<>>

--------------------------------------------------------------------------
\* Specification of apply_filters_to_items alone

InitFilter ==
    /\ db \in Collections
    /\ filters \in FilterSpecs
    /\ search_text \in SearchTexts
    /\ order_by = "date"
    /\ is_desc = TRUE
    /\ page = 1
    /\ pagesize = 1
    /\ preview = FALSE
    /\ explain_results = FALSE
    /\ positional = 0
    /\ pc = "start"
    /\ filtered = NotYet
    /\ Fresh

ApplyFiltersToItems ==
    /\ pc = "start"
    /\ filtered' = apply_filters_to_items(get_all_items(db), filters, search_text)
    /\ pc' = "filtered"
    /\ UNCHANGED <<db, store_order, arguments, filter_counts, ordered, response,
                   earlier, caches, calls, author_order,
                   in_flight>>

SpecFilter == InitFilter /\ [][ApplyFiltersToItems]_vars

--------------------------------------------------------------------------
\* Specification of apply_ordering_to_items on a filtered query

OrderBys == {"date", "title", "relevance"}

\* the filter specs of the ordering and search specifications
FewFilterSpecs ==
    {<<>>,
     <<<<KeyTopicsKey, <<KeyTopic[1].name>>>>>>,
     <<<<TypeOfRecordKey, <<Rep>>>>>>,
     <<<<YearsKey, <<Str(2019)>>>>, <<AuthorIdKey, <<Str(1)>>>>>>}

InitOrder ==
    /\ db \in Collections
    /\ filters \in FewFilterSpecs
    /\ search_text \in SearchTexts
    /\ order_by \in OrderBys
    /\ is_desc \in BOOLEAN
    /\ page = 1
    /\ pagesize = 1
    /\ preview = FALSE
    /\ explain_results = FALSE
    /\ positional = 0
    /\ pc = "filtered"
    /\ filtered = apply_filters_to_items(get_all_items(db), filters, search_text)
    /\ Fresh

ApplyOrderingToItems ==
    /\ pc = "filtered"
    /\ filtered.error = NoError
    /\ \E s \in Scans(db) :
           /\ store_order' = s
           /\ ordered' = apply_ordering_to_items(
                             ItemsOf(filtered), order_by, is_desc, search_text, s)
    /\ pc' = "ordered"
    /\ UNCHANGED <<db, arguments, filtered, filter_counts, response, earlier,
                   caches, calls, author_order,
                   in_flight>>

SpecOrder == InitOrder /\ [][ApplyOrderingToItems]_vars

--------------------------------------------------------------------------
\* Specification of get_metadata_value_counts alone

CountFilterSpecs == {fs \in FilterSpecs : Len(fs) <= 1} \cup FewFilterSpecs

InitCounts ==
    /\ db \in Collections
    /\ filters \in CountFilterSpecs
    /\ search_text \in SearchTexts
    /\ order_by = "date"
    /\ is_desc = TRUE
    /\ page = 1
    /\ pagesize = 1
    /\ preview = FALSE
    /\ explain_results = FALSE
    /\ positional = 0
    /\ pc = "start"
    /\ filtered = NotYet
    /\ Fresh

GetMetadataValueCounts ==
    /\ pc = "start"
    /\ \E s \in Scans(db) :
           /\ store_order' = s
           /\ filter_counts' = get_metadata_value_counts(
                  get_all_items(db), get_all_items(db), <<>>, filters,
                  search_text, s)
    /\ pc' = "counted"
    /\ UNCHANGED <<db, arguments, filtered, ordered, response, earlier, caches,
                   calls, author_order,
                   in_flight>>

SpecCounts == InitCounts /\ [][GetMetadataValueCounts]_vars

--------------------------------------------------------------------------
\* Specification of one search through Search.post

MaxPage == 2
MaxPageSize == 2

Pages == 1..MaxPage
PageSizes == 1..MaxPageSize

\* the collections searched: fewer items than the table holds
SearchCollections == {S \in Collections : Cardinality(S) < MaxItems}

\* order_by and is_desc, the direction read by date and title only
Orderings ==
    {<<"date", TRUE>>, <<"date", FALSE>>, <<"title", TRUE>>, <<"relevance", TRUE>>}

\* preview and explain_results
Modes == {<<FALSE, TRUE>>, <<FALSE, FALSE>>, <<TRUE, TRUE>>}

\* a call as the history keeps it: its arguments, how many of them were
\* passed by position, the collection at the time, and what it returned
CallRecord(kw, n, collection, out) ==
    [kw |-> kw, positional |-> n, db |-> collection, hit |-> out.hit,
     response |-> out.response]

\* a call of the cached get_search with the given page, its first n arguments
\* passed by position, the store returning its rows in the order s
Call(p, n, s) ==
    \E out \in {cached(search_cache, items_cache, db, n,
                       Kwargs(p, pagesize, filters, search_text, order_by,
                              is_desc, preview, explain_results), s)} :
        /\ store_order' = s
        /\ page' = p
        /\ positional' = n
        /\ calls' = Append(calls,
                       CallRecord(Kwargs(p, pagesize, filters, search_text,
                                         order_by, is_desc, preview,
                                         explain_results), n, db, out))
        /\ response' = out.response
        /\ search_cache' = out.search_cache
        /\ items_cache' = out.items_cache
        /\ filtered' = IF out.hit THEN filtered ELSE out.results.filtered_items
        /\ filter_counts' = IF out.hit THEN filter_counts
                            ELSE out.results.filter_counts
        /\ ordered' = IF out.hit THEN ordered ELSE out.results.ordered_items
        /\ UNCHANGED <<db, filters, search_text, order_by, is_desc, pagesize,
                       preview, explain_results, author_order,
                   in_flight>>

InitSearch ==
    /\ db \in SearchCollections
    /\ filters \in FewFilterSpecs
    /\ search_text \in SearchTexts
    /\ \E o \in Orderings : order_by = o[1] /\ is_desc = o[2]
    /\ page \in Pages
    /\ pagesize \in PageSizes
    /\ \E m \in Modes : preview = m[1] /\ explain_results = m[2]
    /\ positional = 0
    /\ pc = "start"
    /\ filtered = NotYet
    /\ Fresh

GetSearch ==
    /\ pc = "start"
    /\ \E s \in Scans(db) : Call(page, positional, s)
    /\ pc' = "done"
    /\ UNCHANGED earlier

SpecSearch == InitSearch /\ [][GetSearch]_vars

--------------------------------------------------------------------------
\* Specification of one unfiltered search that returns items: every ordering,
\* page and page size, with and without search text and explain_results

InitResponse ==
    /\ db \in SearchCollections
    /\ filters = <<>>
    /\ search_text \in SearchTexts
    /\ \E o \in Orderings : order_by = o[1] /\ is_desc = o[2]
    /\ page \in Pages
    /\ pagesize \in PageSizes
    /\ preview = FALSE
    /\ explain_results \in BOOLEAN
    /\ positional = 0
    /\ pc = "start"
    /\ filtered = NotYet
    /\ Fresh

SpecResponse == InitResponse /\ [][GetSearch]_vars

--------------------------------------------------------------------------
\* Specification of two searches ordered by date that differ in the page

InitPages ==
    /\ db \in SearchCollections
    /\ filters \in {<<>>, <<<<KeyTopicsKey, <<KeyTopic[1].name>>>>>>}
    /\ search_text = None
    /\ order_by = "date"
    /\ is_desc \in BOOLEAN
    /\ page \in Pages
    /\ pagesize \in PageSizes
    /\ preview = FALSE
    /\ explain_results = FALSE
    /\ positional = 0
    /\ pc = "start"
    /\ filtered = NotYet
    /\ Fresh

GetSearchAnotherPage ==
    /\ pc = "done"
    /\ \E p \in Pages, s \in Scans(db) : Call(p, positional, s)
    /\ earlier' = response
    /\ pc' = "again"

SpecPages == InitPages /\ [][GetSearch \/ GetSearchAnotherPage]_vars

--------------------------------------------------------------------------
\* Specification of repeated searches of one process, by Search.post or by a
\* direct caller of get_search, while the ingest adds items to the collection

MaxCalls == 3

\* how a caller passes the arguments: all by keyword, or the page by position
Passings == {0, 1}

\* the items the collection starts with or is given later
CacheItems == {1, 4}

InitCache ==
    /\ db \in {{i} : i \in CacheItems}
    /\ filters = <<>>
    /\ search_text = Some(<<"B">>)
    /\ order_by \in {"date", "relevance"}
    /\ is_desc = TRUE
    /\ page \in Pages
    /\ pagesize = 1
    /\ preview = FALSE
    /\ explain_results \in BOOLEAN
    /\ positional \in Passings
    /\ pc = "start"
    /\ filtered = NotYet
    /\ Fresh

\* a later call: any page, passed either way
GetSearchAgain ==
    /\ pc \in {"done", "again"}
    /\ Len(calls) < MaxCalls
    /\ \E p \in Pages, n \in Passings, s \in Scans(db) : Call(p, n, s)
    /\ earlier' = response
    /\ pc' = "again"

\* update_items (ingest/plugins.py): an item is upserted into the store
UpdateItems ==
    /\ \E i \in CacheItems \ db :
           /\ db' = db \cup {i}
           /\ store_order' = Append(store_order, i)
    /\ UNCHANGED <<arguments, pc, filtered, filter_counts, ordered, response,
                   earlier, caches, calls, author_order,
                   in_flight>>

SpecCache == InitCache /\ [][GetSearch \/ GetSearchAgain \/ UpdateItems]_vars

--------------------------------------------------------------------------
\* Specification of apply_filters_to_items on search texts of every casing

TextCasings ==
    {None, Some(<<>>), Some(<<"b">>), Some(<<"B">>), Some(<<"d">>), Some(<<"D">>),
     Some(<<"a", "b">>), Some(<<"A", "b">>), Some(<<"a", "B">>), Some(<<"A", "B">>)}

InitText ==
    /\ db \in Collections
    /\ filters \in FewFilterSpecs
    /\ search_text \in TextCasings
    /\ order_by = "date"
    /\ is_desc = TRUE
    /\ page = 1
    /\ pagesize = 1
    /\ preview = FALSE
    /\ explain_results = FALSE
    /\ positional = 0
    /\ pc = "start"
    /\ filtered = NotYet
    /\ Fresh

SpecText == InitText /\ [][ApplyFiltersToItems]_vars

--------------------------------------------------------------------------
\* Specification of one search called with pagesize = 0, in every mode

InitZeroPageSize ==
    /\ db \in SearchCollections
    /\ filters = <<>>
    /\ search_text \in SearchTexts
    /\ \E o \in Orderings : order_by = o[1] /\ is_desc = o[2]
    /\ page \in Pages
    /\ pagesize = 0
    /\ \E m \in Modes : preview = m[1] /\ explain_results = m[2]
    /\ positional = 0
    /\ pc = "start"
    /\ filtered = NotYet
    /\ Fresh

SpecZeroPageSize == InitZeroPageSize /\ [][GetSearch]_vars

--------------------------------------------------------------------------
\* Specification of apply_filters_to_items on the tag keys of ItemFilter

\* the tag categories ItemFilter documents as filter keys
TagKeys == <<KeyTopicsKey, CovidTagsKey>>

TagLists(k) ==
    CASE k = 1 -> {<<KeyTopic[1].name>>, <<KeyTopic[2].name, KeyTopic[1].name>>}
      [] k = 2 -> {<<CovidTag[1].name>>, <<CovidTag[2].name, CovidTag[1].name>>}

\* a filter spec of one tag key, or of both in either order
TagFilterSpecs ==
    {<<<<TagKeys[k], l>>>> : k \in {1}, l \in TagLists(1)}
        \cup {<<<<TagKeys[k], l>>>> : k \in {2}, l \in TagLists(2)}
        \cup {<<<<TagKeys[1], l>>, <<TagKeys[2], m>>>> :
                 l \in TagLists(1), m \in TagLists(2)}
        \cup {<<<<TagKeys[2], m>>, <<TagKeys[1], l>>>> :
                 l \in TagLists(1), m \in TagLists(2)}

InitTags ==
    /\ db \in Collections
    /\ filters \in TagFilterSpecs
    /\ search_text \in SearchTexts
    /\ order_by = "date"
    /\ is_desc = TRUE
    /\ page = 1
    /\ pagesize = 1
    /\ preview = FALSE
    /\ explain_results = FALSE
    /\ positional = 0
    /\ pc = "start"
    /\ filtered = NotYet
    /\ Fresh

SpecTags == InitTags /\ [][ApplyFiltersToItems]_vars

--------------------------------------------------------------------------
\* Specification of one explained search by a text found in authors' names
\* and acronyms, the authors of a document visited in any order

AuthorTexts == {Some(<<"w">>), Some(<<"U">>), Some(<<"d", "U">>)}

InitExplain ==
    /\ db \in SearchCollections
    /\ filters = <<>>
    /\ search_text \in AuthorTexts
    /\ order_by = "date"
    /\ is_desc \in BOOLEAN
    /\ page \in Pages
    /\ pagesize \in PageSizes
    /\ preview = FALSE
    /\ explain_results = TRUE
    /\ positional = 0
    /\ pc = "start"
    /\ filtered = NotYet
    /\ NothingComputed
    /\ author_order \in Scans(DOMAIN Author)
    /\ in_flight = <<>>

SpecExplain == InitExplain /\ [][GetSearch]_vars

--------------------------------------------------------------------------
\* Specification of one search, preview or not, by a text found in the names
\* of authors, events or key topics

PreviewTexts ==
    {None, Some(<<>>), Some(<<"w">>), Some(<<"D">>), Some(<<"T">>),
     Some(<<"e", "1">>)}

InitPreview ==
    /\ db \in SearchCollections
    /\ filters \in FewFilterSpecs
    /\ search_text \in PreviewTexts
    /\ order_by = "date"
    /\ is_desc = TRUE
    /\ page = 1
    /\ pagesize = 1
    /\ preview \in BOOLEAN
    /\ explain_results = TRUE
    /\ positional = 0
    /\ pc = "start"
    /\ filtered = NotYet
    /\ Fresh

SpecPreview == InitPreview /\ [][GetSearch]_vars

--------------------------------------------------------------------------
\* Specification of two searches that differ in the page only, under every
\* ordering, with and without search text

InitPartition ==
    /\ db \in SearchCollections
    /\ filters = <<>>
    /\ search_text \in SearchTexts
    /\ \E o \in Orderings : order_by = o[1] /\ is_desc = o[2]
    /\ page \in Pages
    /\ pagesize \in PageSizes
    /\ preview = FALSE
    /\ explain_results = FALSE
    /\ positional = 0
    /\ pc = "start"
    /\ filtered = NotYet
    /\ Fresh

SpecPartition == InitPartition /\ [][GetSearch \/ GetSearchAnotherPage]_vars

--------------------------------------------------------------------------
\* Specification of requests served at the same time by the threads of one
\* process, which share the two caches. A thread is at the check of `cached`
\* ("start"), at the check of `cached_items` ("searching"), at the call of
\* get_ordered_items_and_filter_counts ("computing"), at the pagination
\* ("paginating") or has returned ("returned"); `results` is its local
\* variable of that name. The collection does not change.

Requests == 1..MaxCalls

\* the keyword arguments of request r: those of the first, but for the page
KwargsOf(r) ==
    Kwargs(in_flight[r].page, pagesize, filters, search_text, order_by, is_desc,
           preview, explain_results)

InitRace ==
    /\ db \in {{1, 2}, {1, 4}}
    /\ filters = <<>>
    /\ search_text \in {None, Some(<<"B">>)}
    /\ order_by \in {"date", "relevance"}
    /\ is_desc = TRUE
    /\ page \in Pages
    /\ pagesize = 1
    /\ preview = FALSE
    /\ explain_results = FALSE
    /\ positional = 0
    /\ pc = "start"
    /\ filtered = NotYet
    /\ NothingComputed
    /\ author_order = Ascending(DOMAIN Author)
    /\ in_flight \in [Requests -> [at : {"start"}, page : Pages,
                                   results : {RaiseResults("NotYet", <<>>, NoCounts)}]]
    /\ in_flight[1].page = page

\* key = str(kwargs); if key in cache: return cache[key]
Enter(r) ==
    /\ in_flight[r].at = "start"
    /\ IF StrOfKwargs(SearchKwargs, KwargsOf(r)) \in DOMAIN search_cache
       THEN /\ in_flight' = [in_flight EXCEPT ![r].at = "returned"]
            /\ response' = search_cache[StrOfKwargs(SearchKwargs, KwargsOf(r))]
            /\ calls' = Append(calls,
                   CallRecord(KwargsOf(r), 0, db,
                       [hit |-> TRUE,
                        response |-> search_cache[StrOfKwargs(SearchKwargs,
                                                              KwargsOf(r))]]))
       ELSE /\ in_flight' = [in_flight EXCEPT ![r].at = "searching"]
            /\ UNCHANGED <<response, calls>>
    /\ UNCHANGED <<db, store_order, arguments, pc, filtered, filter_counts,
                   ordered, earlier, caches, author_order>>

\* key = str(kwargs); if key in cache: items = cache[key]; return items
Lookup(r) ==
    /\ in_flight[r].at = "searching"
    /\ IF StrOfKwargs(ItemsKwargs, KwargsOf(r)) \in DOMAIN items_cache
       THEN \E s \in Scans(db) :
                /\ store_order' = s
                /\ in_flight' =
                       [in_flight EXCEPT
                           ![r].at = "paginating",
                           ![r].results =
                               cached_items(items_cache, db, KwargsOf(r), s).results]
       ELSE /\ in_flight' = [in_flight EXCEPT ![r].at = "computing"]
            /\ UNCHANGED store_order
    /\ UNCHANGED <<db, arguments, pc, filtered, filter_counts, ordered,
                   response, earlier, caches, calls, author_order>>

\* results = func(*func_args, **kwargs); cache[key] = results
Compute(r) ==
    /\ in_flight[r].at = "computing"
    /\ \E s \in Scans(db) :
           /\ store_order' = s
           /\ in_flight' =
                  [in_flight EXCEPT
                      ![r].at = "paginating",
                      ![r].results =
                          get_ordered_items_and_filter_counts(db, KwargsOf(r), s)]
           /\ items_cache' =
                  StoreResults(items_cache, StrOfKwargs(ItemsKwargs, KwargsOf(r)),
                      get_ordered_items_and_filter_counts(db, KwargsOf(r), s)).cache
    /\ UNCHANGED <<db, arguments, pc, filtered, filter_counts, ordered,
                   response, earlier, search_cache, calls, author_order>>

\* the rest of get_search, then cache[key] = results; return results
Return(r) ==
    /\ in_flight[r].at = "paginating"
    /\ \E out \in {StoreResponse(search_cache,
                       StrOfKwargs(SearchKwargs, KwargsOf(r)),
                       Paginate(KwargsOf(r), [results |-> in_flight[r].results,
                                              cache |-> items_cache]))} :
           /\ response' = out.response
           /\ search_cache' = out.search_cache
           /\ calls' = Append(calls, CallRecord(KwargsOf(r), 0, db, out))
    /\ in_flight' = [in_flight EXCEPT ![r].at = "returned"]
    /\ UNCHANGED <<db, store_order, arguments, pc, filtered, filter_counts,
                   ordered, earlier, items_cache, author_order>>

SpecRace ==
    InitRace /\ [][\E r \in Requests : Enter(r) \/ Lookup(r) \/ Compute(r) \/ Return(r)]_vars

--------------------------------------------------------------------------
\* Specification of apply_filters_to_items on years filters: lists of years
\* and ranges, open at either end or at both, alone or with a topic filter

YearLists ==
    {<<Str(2019)>>, <<Str(2018), Str(2020)>>,
     <<RangeValue(Str(2019), NullWord)>>,
     <<RangeValue(NullWord, Str(2019))>>,
     <<RangeValue(Str(2018), Str(2020))>>,
     <<RangeValue(NullWord, NullWord)>>}

InitYears ==
    /\ db \in Collections
    /\ \E l \in YearLists :
           filters \in {<<<<YearsKey, l>>>>,
                        <<<<YearsKey, l>>, <<KeyTopicsKey, <<KeyTopic[1].name>>>>>>,
                        <<<<KeyTopicsKey, <<KeyTopic[1].name>>>>, <<YearsKey, l>>>>}
    /\ search_text \in SearchTexts
    /\ order_by = "date"
    /\ is_desc = TRUE
    /\ page = 1
    /\ pagesize = 1
    /\ preview = FALSE
    /\ explain_results = FALSE
    /\ positional = 0
    /\ pc = "start"
    /\ filtered = NotYet
    /\ Fresh

SpecYears == InitYears /\ [][ApplyFiltersToItems]_vars

--------------------------------------------------------------------------
\* Vocabulary of the properties

\* the string-cast values a document has for a filter key
KeyValues(i, field) ==
    CASE field = KeyTopicsKey -> {KeyTopic[t].name : t \in Item[i].key_topics}
      [] field = AuthorIdKey -> {Str(a) : a \in Item[i].authors}
      [] field = AuthorTypeKey ->
             {Author[a].type_of_authoring_organization : a \in Item[i].authors}
      [] field = FunderNameKey -> {Funder[f].name : f \in Item[i].funders}
      [] field = EventNameKey -> {Event[e].name : e \in Item[i].events}
      [] field = YearsKey ->
             IF IsNone(Item[i].date) THEN {} ELSE {Str(Val(Item[i].date).year)}
      [] field = TypeOfRecordKey -> {Item[i].type_of_record}

\* membership: some value of the document for the key is an allowed value
HasAllowedValue(i, field, allowed_values) ==
    KeyValues(i, field) \cap Range(allowed_values) # {}

YearDomain == 2017..2021
BoundWords == {NullWord} \cup {Str(y) : y \in YearDomain}
LowerBound(a) == IF a = NullWord THEN 0 ELSE CHOOSE y \in YearDomain : Str(y) = a
UpperBound(b) == IF b = NullWord THEN 9999 ELSE CHOOSE y \in YearDomain : Str(y) = b

\* a years key whose first value holds the word range
IsRangeKey(field, allowed_values) ==
    /\ field = YearsKey
    /\ Len(allowed_values) > 0
    /\ Contains(RangeWord, allowed_values[1])

\* a years key whose first value is range_<a>_<b>, each a year or null
IsWellFormedRange(field, allowed_values) ==
    /\ IsRangeKey(field, allowed_values)
    /\ \E a, b \in BoundWords : allowed_values[1] = RangeValue(a, b)

\* the document's year lies within the range's bounds, both inclusive
InYearRange(i, value) ==
    \E a, b \in BoundWords :
        /\ value = RangeValue(a, b)
        /\ ~IsNone(Item[i].date)
        /\ LowerBound(a) <= Val(Item[i].date).year
        /\ Val(Item[i].date).year <= UpperBound(b)

\* a years key the code cannot read: no first value, or a range it cannot parse
IsUnreadableYears(field, allowed_values) ==
    /\ field = YearsKey
    /\ \/ Len(allowed_values) = 0
       \/ /\ IsRangeKey(field, allowed_values)
          /\ ~IsWellFormedRange(field, allowed_values)

\* the documents left by the search text alone
TextPool ==
    IF ~IsNone(search_text) /\ Val(search_text) # <<>>
    THEN ApplySearchText(db, search_text)
    ELSE db

\* the filter spec without its n-th key
WithoutKey(fs, n) == [k \in 1..(Len(fs) - 1) |-> IF k < n THEN fs[k] ELSE fs[k + 1]]

\* the filter spec without the key of a field
Relaxed(fs, field) == SelectSeq(fs, LAMBDA kv : kv[1] # field)

\* the filter spec with the key of a field set to a list of values
Selecting(fs, field, allowed_values) ==
    IF \E n \in 1..Len(fs) : fs[n][1] = field
    THEN [n \in 1..Len(fs) |->
             IF fs[n][1] = field THEN <<field, allowed_values>> ELSE fs[n]]
    ELSE Append(fs, <<field, allowed_values>>)

\* a selection the interface can send: values, or a range of two bounds
IsSelection(field, allowed_values) ==
    IsRangeKey(field, allowed_values) => IsWellFormedRange(field, allowed_values)

\* the selections of a filter key
Selections(field) ==
    {l \in AllowedLists(CHOOSE k \in 1..Len(FilterKeys) : FilterKeys[k] = field) :
        IsSelection(field, l)}

\* the values a document counts under in a facet category: the string-cast
\* values of the category's filter key, or null for a document without a date
FacetValues(i, X) ==
    {Some(v) : v \in KeyValues(i, X.filter_field)}
        \cup (IF X.key = "years" /\ IsNone(Item[i].date) THEN {None} ELSE {})

\* the value and the count of a by_value entry
EntryValue(X, e) ==
    IF X.key = "authors" THEN Some(Str(e[4]))
    ELSE IF IsNone(e[1]) THEN None
    ELSE IF X.key = "years" THEN Some(Str(Val(e[1])))
    ELSE e[1]

EntryCount(X, e) == IF X.key = "authors" THEN e[3] ELSE e[2]

\* the dates of two returned documents respect the direction of the ordering
InDateOrder(x, y) ==
    (~IsNone(Item[x].date) /\ ~IsNone(Item[y].date)) =>
        IF is_desc THEN ~DateLess(Val(Item[x].date), Val(Item[y].date))
        ELSE ~DateLess(Val(Item[y].date), Val(Item[x].date))

\* the orders a filter spec's keys can be given in
Reorderings(fs) ==
    {[k \in 1..Len(fs) |-> fs[p[k]]] :
        p \in {q \in [1..Len(fs) -> 1..Len(fs)] :
                  \A a, b \in 1..Len(fs) : a # b => q[a] # q[b]}}

--------------------------------------------------------------------------
C2_Commutative ==
    pc = "filtered" =>
        /\ \A fs \in Reorderings(filters) :
               LET other == apply_filters_to_items(get_all_items(db), fs, search_text)
               IN  /\ (other.error = NoError) <=> (filtered.error = NoError)
                   /\ ItemsOf(other) = ItemsOf(filtered)
        /\ \A a, b \in 1..Len(filters) :
               LET ab == ApplyFilterKeys(Ok(RowsOf(db)), <<filters[a], filters[b]>>)
                   ba == ApplyFilterKeys(Ok(RowsOf(db)), <<filters[b], filters[a]>>)
               IN  /\ (ab.error = NoError) <=> (ba.error = NoError)
                   /\ ItemsOf(ab) = ItemsOf(ba)

\* C2 witness: two keys of different kinds, each of which narrows the set.
C2_Witness ==
    /\ pc = "filtered"
    /\ Len(filters) = 2
    /\ filtered.error = NoError
    /\ ItemsOf(filtered) # {}
    /\ \A n \in 1..2 :
           LET one == ApplyFilterKeys(Ok(RowsOf(db)), <<filters[n]>>)
           IN  /\ ItemsOf(one) # db
               /\ ItemsOf(one) # ItemsOf(filtered)

\* C3 (as stated): for every facet category X the counts are those of the
\* documents kept by the filters of the other categories and the search text:
\* unique and by_value are the same whatever is selected for X, and with
\* years: ["2019"] selected a document of 2020 kept by the other filters still
\* counts under 2020.
C3_RelaxedCounts ==
    (pc = "counted" /\ \A n \in 1..Len(filters) : IsSelection(filters[n][1], filters[n][2])) =>
        \A n \in 1..Len(to_check) :
            LET X == to_check[n]
                pool == apply_filters_to_items(
                            get_all_items(db), Relaxed(filters, X.filter_field),
                            search_text)
                docs == ItemsOf(pool)
            IN  pool.error = NoError =>
                    /\ filter_counts.error = NoError
                    /\ LET facet == filter_counts.output[X.key]
                           entries == {<<EntryValue(X, e), EntryCount(X, e)>> :
                                          e \in Range(facet.by_value)}
                       IN  /\ facet.unique =
                                  Cardinality({i \in docs : FacetValues(i, X) # {}})
                           /\ Len(facet.by_value) = Cardinality(entries)
                           /\ entries =
                                  {<<v, Cardinality({i \in docs : v \in FacetValues(i, X)})>> :
                                      v \in UNION {FacetValues(i, X) : i \in docs}}
                           /\ (/\ X.key = "years"
                               /\ \E k \in 1..Len(filters) :
                                      filters[k] = <<YearsKey, <<Str(2019)>>>>
                               /\ \E i \in docs : Some(Str(2020)) \in FacetValues(i, X))
                                  => \E e \in Range(facet.by_value) :
                                         e[1] = Some(2020) /\ e[2] > 0
                    /\ \A l \in {l \in Selections(X.filter_field) :
                                  \E k \in 1..Len(filters) :
                                      filters[k][1] = X.filter_field} :
                           LET other == get_metadata_value_counts(
                                            get_all_items(db), get_all_items(db), <<>>,
                                            Selecting(filters, X.filter_field, l),
                                            search_text, store_order)
                           IN  /\ other.error = NoError
                               /\ other.output[X.key] = filter_counts.output[X.key]

\* C4 (as stated): for every non-null entry (v, c) of a category's by_value
\* list in a search response, the same search with the category's filter key
\* set to [v] returns total = c.
C4_CountsPredictTotals ==
    (pc = "done" /\ response.error = NoError /\ "filter_counts" \in DOMAIN response) =>
        \A n \in 1..Len(to_check) :
            LET X == to_check[n]
            IN  \A e \in Range(response.filter_counts[X.key].by_value) :
                    ~IsNone(EntryValue(X, e)) =>
                        LET kw == Kwargs(page, pagesize,
                                         Selecting(filters, X.filter_field,
                                                   <<Val(EntryValue(X, e))>>),
                                         search_text, order_by, is_desc, preview,
                                         explain_results)
                            other == cached(search_cache, items_cache, db,
                                            positional, kw, store_order).response
                        IN  /\ other.error = NoError
                            /\ other.total = EntryCount(X, e)

\* C5: a years range keeps exactly the documents dated within [start, end],
\* a null start meaning 0 and a null end 9999.
C5_YearRangeInclusive ==
    pc = "filtered" =>
        \A n \in 1..Len(filters) :
            IsWellFormedRange(filters[n][1], filters[n][2]) =>
                LET others == apply_filters_to_items(
                                  get_all_items(db), WithoutKey(filters, n), search_text)
                IN  others.error = NoError =>
                        /\ filtered.error = NoError
                        /\ ItemsOf(filtered) =
                               {i \in ItemsOf(others) : InYearRange(i, filters[n][2][1])}

\* C5 witness: range_2019_null keeps the documents dated 2020 and 2019 and
\* drops the one dated 2018.
C5_Witness ==
    /\ pc = "filtered"
    /\ filters = <<<<YearsKey, <<RangeValue(Str(2019), NullWord)>>>>>>
    /\ {1, 2, 4} \subseteq db
    /\ 1 \in ItemsOf(filtered)
    /\ 2 \in ItemsOf(filtered)
    /\ 4 \notin ItemsOf(filtered)

\* C6 (as stated): a years range whose start is greater than its end makes
\* the call fail; no result set is returned for it.
C6_InvertedRangeRejected ==
    pc = "filtered" =>
        \A n \in 1..Len(filters) :
            (/\ IsWellFormedRange(filters[n][1], filters[n][2])
             /\ \E a, b \in BoundWords :
                    /\ filters[n][2][1] = RangeValue(a, b)
                    /\ LowerBound(a) > UpperBound(b))
            => filtered.error # NoError

\* C7 (as stated): a key whose allowed-value list is empty changes nothing:
\* the outcome is that of the filter spec without the key, and no error.
C7_EmptyListIsNoOp ==
    pc = "filtered" =>
        \A n \in 1..Len(filters) :
            Len(filters[n][2]) = 0 =>
                filtered = apply_filters_to_items(
                               get_all_items(db), WithoutKey(filters, n), search_text)

--------------------------------------------------------------------------
\* the value of the column a document is ordered by
OrderingField(i) == IF order_by = "date" THEN Item[i].date ELSE Item[i].title

\* the rows are the filtered documents, each once
IsArrangementOf(rows, ids) ==
    /\ Len(rows) = Cardinality(ids)
    /\ Range(rows) = ids

Score(i) ==
    LET text == Lower(Val(search_text))
    IN  IF ~IsNone(Item[i].title) /\ Contains(text, Lower(Val(Item[i].title))) THEN 3
        ELSE IF Contains(text, Lower(Item[i].description)) THEN 2
        ELSE 0

\* C10 (as stated): ordered by relevance with a search text, every filtered
\* document gets its score and the list is in descending order of score.
C10_RelevanceDescending ==
    (/\ pc = "ordered"
     /\ order_by = "relevance"
     /\ ~IsNone(search_text)
     /\ Val(search_text) # <<>>) =>
        /\ ordered.error = NoError
        /\ ordered.kind = "list"
        /\ IsArrangementOf(ordered.rows, ItemsOf(filtered))
        /\ \A a, b \in 1..Len(ordered.rows) :
               a < b => Score(ordered.rows[a]) >= Score(ordered.rows[b])

\* the place of a document in a sequence that holds it once
PlaceIn(rows, x) == CHOOSE k \in 1..Len(rows) : rows[k] = x

\* C11 (as stated): ordered by relevance with a search text, any two documents
\* of equal score appear in the list in the relative order they had in the
\* filtered pool before sorting.
C11_RelevanceStable ==
    (/\ pc = "ordered"
     /\ order_by = "relevance"
     /\ ~IsNone(search_text)
     /\ Val(search_text) # <<>>
     /\ ordered.error = NoError) =>
        LET pool == Restrict(store_order, ItemsOf(filtered))
        IN  \A a, b \in 1..Len(ordered.rows) :
                (a < b /\ Score(ordered.rows[a]) = Score(ordered.rows[b])) =>
                    PlaceIn(pool, ordered.rows[a]) < PlaceIn(pool, ordered.rows[b])

\* the ordered items held the other way: as a list, or as a query
HeldAs(kind) == [ordered EXCEPT !.kind = kind]

\* C12: on the ordered sequence of a search, for every page >= 1 and every
\* pagesize >= 1, the list branch (slice, total = length) and the query branch
\* (count, page) give the same total, num_pages and items, and the response
\* carries them with the page and pagesize asked for.
C12_DualPathEquivalence ==
    (pc = "done" /\ ordered.error = NoError) =>
        /\ \A p \in 1..(MaxPage + 1), ps \in 1..(MaxPageSize + 1) :
               /\ PageOf(HeldAs("list"), p, ps) = PageOf(HeldAs("query"), p, ps)
               /\ TotalOf(HeldAs("list")) = TotalOf(HeldAs("query"))
               /\ Ceil(TotalOf(HeldAs("list")), ps) = Ceil(TotalOf(HeldAs("query")), ps)
        /\ (response.error = NoError /\ ~preview) =>
               \A kind \in {"list", "query"} :
                   /\ response.data = PageOf(HeldAs(kind), page, pagesize)
                   /\ response.total = TotalOf(HeldAs(kind))
                   /\ response.num_pages = Ceil(TotalOf(HeldAs(kind)), pagesize)
                   /\ response.page = page
                   /\ response.pagesize = pagesize

\* C12 witness: the second page of a list of three documents ordered by
\* relevance, not empty.
C12_Witness ==
    /\ pc = "done"
    /\ ordered.error = NoError
    /\ ordered.kind = "list"
    /\ Len(ordered.rows) = 3
    /\ page = 2
    /\ ~preview
    /\ response.error = NoError
    /\ response.num >= 1
    /\ response.data[1] = ordered.rows[pagesize + 1]

\* C13 (as stated): a preview response holds n_items, other_instances and
\* search_text and nothing else, and its n_items is the total the non-preview
\* search with the same filters and search text reports, whatever its page,
\* pagesize, order_by, is_desc and explain_results.
C13_PreviewMatchesFull ==
    (pc = "done" /\ preview /\ response.error = NoError) =>
        /\ DOMAIN response = {"error", "n_items", "other_instances", "search_text"}
        /\ \A p \in Pages, ps \in PageSizes, o \in Orderings, explain \in BOOLEAN :
               LET full == cached(search_cache, items_cache, db, positional,
                                  Kwargs(p, ps, filters, search_text, o[1], o[2],
                                         FALSE, explain),
                                  store_order).response
               IN  /\ full.error = NoError
                   /\ full.total = response.n_items

\* whether a search text is given
HasSearchText == ~IsNone(search_text) /\ Val(search_text) # <<>>

\* C14 (as stated): in a non-preview response data_snippets and filter_counts
\* are present exactly when explain_results is true, and data_snippets, when
\* present, holds one snippet map per returned item.
C14_OneSnippetPerItem ==
    (pc = "done" /\ ~preview /\ response.error = NoError) =>
        /\ ("data_snippets" \in DOMAIN response) <=> explain_results
        /\ ("filter_counts" \in DOMAIN response) <=> explain_results
        /\ explain_results => Len(response.data_snippets) = response.num

\* C14 (amended): data_snippets and filter_counts are present exactly when
\* explain_results is true; with a search text data_snippets holds one snippet
\* map per returned item, the n-th that of the n-th item; without a search
\* text it is empty.
C14_SnippetsWhenExplaining ==
    (pc = "done" /\ ~preview /\ response.error = NoError) =>
        /\ ("data_snippets" \in DOMAIN response) <=> explain_results
        /\ ("filter_counts" \in DOMAIN response) <=> explain_results
        /\ explain_results =>
               IF HasSearchText
               THEN /\ Len(response.data_snippets) = response.num
                    /\ response.num = Len(response.data)
                    /\ \A n \in 1..response.num :
                           /\ ("title" \in response.data_snippets[n]) <=>
                                  Contains(Lower(Val(search_text)),
                                           Lower(Val(Item[response.data[n]].title)))
                           /\ ("files" \in response.data_snippets[n]) <=>
                                  Contains(Lower(Val(search_text)),
                                           Item[response.data[n]].file_search_text)
               ELSE response.data_snippets = <<>>

\* C14 witness: two items returned with a search text, the snippet map of the
\* first with a title match and that of the second without one.
C14_Witness ==
    /\ pc = "done"
    /\ ~preview
    /\ explain_results
    /\ HasSearchText
    /\ response.error = NoError
    /\ response.num = 2
    /\ "title" \in response.data_snippets[1]
    /\ "title" \notin response.data_snippets[2]

--------------------------------------------------------------------------
\* two calls of the history made with the same arguments, passed the same way
SameCall(a, b) ==
    /\ calls[a].kw = calls[b].kw
    /\ calls[a].positional = calls[b].positional

C16_KeyedByFullArguments ==
    \A b \in 1..Len(calls) :
        calls[b].hit =>
            \E a \in 1..(b - 1) :
                /\ ~calls[a].hit
                /\ calls[a].kw = calls[b].kw
                /\ calls[a].response = calls[b].response

\* the key under which the cache looks a call up
KeyOf(c) == StrOfKwargs(KeywordsPassed(c.positional), c.kw)

C18_FailureLeavesCachesAlone ==
    [][(calls' # calls /\ response'.error # NoError) =>
           /\ search_cache' = search_cache
           /\ items_cache' = items_cache]_vars

--------------------------------------------------------------------------
\* the by_value list of a category is in descending order of count
CountDescending(X) ==
    LET by_value == filter_counts.output[X.key].by_value
    IN  \A k \in 1..(Len(by_value) - 1) :
            EntryCount(X, by_value[k]) >= EntryCount(X, by_value[k + 1])

\* C19 (as stated): the by_value list of every category, the authors
\* category included, is sorted by document count descending.
C19_ByValueCountDescending ==
    (pc = "counted" /\ filter_counts.error = NoError) =>
        \A n \in 1..Len(to_check) : CountDescending(to_check[n])

\* the sum of the counts of a by_value list
RECURSIVE SumOfCounts(_, _)
SumOfCounts(X, by_value) ==
    IF Len(by_value) = 0 THEN 0
    ELSE EntryCount(X, by_value[1]) + SumOfCounts(X, Tail(by_value))

\* the documents a category counts: those the other categories' filters and
\* the search text keep
CandidatePool(X) ==
    ItemsOf(apply_filters_to_items(get_all_items(db),
                                   Relaxed(filters, X.filter_field), search_text))

\* C20: each count of by_value is the number of distinct documents of the
\* candidate pool that have the value, and unique the number of those that
\* have a value at all: a document with k values adds 1 to unique and 1 to
\* each of their counts, however many linked rows carry a value, and
\* unique <= sum of counts <= documents * values.
C20_CountsAreOfDocuments ==
    (pc = "counted" /\ filter_counts.error = NoError) =>
        \A n \in 1..Len(to_check) :
            LET X == to_check[n]
                docs == CandidatePool(X)
                facet == filter_counts.output[X.key]
            IN  /\ \A k \in 1..Len(facet.by_value) :
                       EntryCount(X, facet.by_value[k]) =
                           Cardinality({i \in docs :
                               EntryValue(X, facet.by_value[k]) \in FacetValues(i, X)})
                /\ facet.unique = Cardinality({i \in docs : FacetValues(i, X) # {}})
                /\ \A i \in docs :
                       \A v \in FacetValues(i, X) :
                           \E k \in 1..Len(facet.by_value) :
                               EntryValue(X, facet.by_value[k]) = v
                /\ facet.unique <= SumOfCounts(X, facet.by_value)
                /\ SumOfCounts(X, facet.by_value) <=
                       Cardinality(docs) * Len(facet.by_value)

\* C20 witness: a document with two authors of one type and two events is
\* counted once under the type, once under each event and once in unique.
C20_Witness ==
    /\ pc = "counted"
    /\ filter_counts.error = NoError
    /\ db = {3, 4}
    /\ filters = <<>>
    /\ IsNone(search_text)
    /\ filter_counts.output["author_types"].unique = 2
    /\ <<Some(Author[1].type_of_authoring_organization), 2>>
           \in Range(filter_counts.output["author_types"].by_value)
    /\ filter_counts.output["events"].unique = 2
    /\ <<Some(Event[1].name), 1>> \in Range(filter_counts.output["events"].by_value)
    /\ <<Some(Event[2].name), 2>> \in Range(filter_counts.output["events"].by_value)

--------------------------------------------------------------------------
\* C21 (as stated): the filter counts of a search response are computed with
\* the exclusion set {"null"}: no by_value entry of any category has a null
\* value, and a document whose value for the category is null does not count
\* towards unique.
C21_NullExcludedFromCounts ==
    (pc = "done" /\ response.error = NoError /\ "filter_counts" \in DOMAIN response) =>
        \A n \in 1..Len(to_check) :
            LET X == to_check[n]
                facet == response.filter_counts[X.key]
            IN  /\ \A e \in Range(facet.by_value) : ~IsNone(EntryValue(X, e))
                /\ facet.unique =
                       Cardinality({i \in CandidatePool(X) :
                           \E v \in FacetValues(i, X) : ~IsNone(v)})

--------------------------------------------------------------------------
\* the first n characters of a string
FirstChars(s, n) == [k \in 1..(IF Len(s) < n THEN Len(s) ELSE n) |-> s[k]]

\* the string holds the text at some position
HoldsText(s, text) ==
    \E k \in 1..(Len(s) - Len(text) + 1) :
        \A j \in 1..Len(text) : s[k + j - 1] = text[j]

\* the lower-case form of a search text of the letters a, b and d
LowerCased(text) ==
    [k \in 1..Len(text) |->
        IF text[k] = "A" THEN "a"
        ELSE IF text[k] = "B" THEN "b"
        ELSE IF text[k] = "D" THEN "d"
        ELSE text[k]]

\* the search texts that differ from one in letter-casing only
Casings(text) ==
    {Some(t) : t \in {u \in [1..Len(Val(text)) -> {"a", "A", "b", "B", "d", "D"}] :
                         LowerCased(u) = LowerCased(Val(text))}}

\* what the category filters alone leave
CategoryFiltered == ApplyFilterKeys(Ok(RowsOf(db)), filters)

\* C22: the search text is applied to what the category filters left, when it
\* is not empty: it keeps exactly the documents whose search_text holds the
\* lower-cased text or whose file_search_text holds it within its first 1000
\* characters; every letter-casing of the text gives the same result; None
\* or an empty text leaves the category-filtered set as it is.
C22_FreeTextFilter ==
    (pc = "filtered" /\ CategoryFiltered.error = NoError) =>
        IF HasSearchText
        THEN /\ filtered.error = NoError
             /\ ItemsOf(filtered) =
                    {i \in ItemsOf(CategoryFiltered) :
                        \/ HoldsText(Item[i].search_text, LowerCased(Val(search_text)))
                        \/ HoldsText(FirstChars(Item[i].file_search_text, 1000),
                                     LowerCased(Val(search_text)))}
             /\ \A i \in ItemsOf(filtered) : filtered.rows[i] = 1
             /\ \A t \in Casings(search_text) :
                    apply_filters_to_items(get_all_items(db), filters, t) = filtered
        ELSE filtered = CategoryFiltered

\* C22 witness: with no category filter, the text D keeps a document whose
\* search_text holds d and drops one whose file holds d after its first 1000
\* characters only.
C22_Witness ==
    /\ pc = "filtered"
    /\ filters = <<>>
    /\ search_text = Some(<<"D">>)
    /\ filtered.error = NoError
    /\ {1, 4} \subseteq db
    /\ 1 \in ItemsOf(filtered)
    /\ 4 \notin ItemsOf(filtered)
    /\ HoldsText(Item[4].file_search_text, <<"d">>)

--------------------------------------------------------------------------
\* C23 (as stated): a search called with a pagesize of 0 or less ends in an
\* error in every mode, preview or not, list or query; it never returns a
\* response.
C23_PageSizeValidated ==
    (pc = "done" /\ pagesize <= 0) => response.error # NoError

--------------------------------------------------------------------------
\* the names of the tags a document has in a tag category
TagNames(i, field) ==
    IF field = KeyTopicsKey THEN {KeyTopic[t].name : t \in Item[i].key_topics}
    ELSE {CovidTag[t].name : t \in Item[i].covid_tags}

\* C24 (as stated): a filter on a tag category the interface documents,
\* key_topics or covid_tags, keeps exactly the documents that have a tag of
\* the category whose name is in the allowed-value list.
C24_TagMembership ==
    pc = "filtered" =>
        /\ filtered.error = NoError
        /\ ItemsOf(filtered) =
               {i \in TextPool :
                   \A n \in 1..Len(filters) :
                       TagNames(i, filters[n][1]) \cap Range(filters[n][2]) # {}}

--------------------------------------------------------------------------
\* how many reports of a list report an author by its entire name
WholeNameReports(reports, a) ==
    Cardinality({k \in 1..Len(reports) :
        reports[k] = [authoring_organization |->
                          Highlight(Author[a].authoring_organization),
                      id |-> a]})

\* C25 (as stated): in the pass over authors.acronym, an author of a returned
\* document is reported, once and by its entire name in one highlight, exactly
\* when its acronym contains the lower-cased search text, in whatever order
\* the authors are visited and whether or not an earlier author matched.
C25_AcronymReportsEveryAuthor ==
    (pc = "done" /\ response.error = NoError /\ ~preview /\ explain_results
         /\ HasSearchText) =>
        \A n \in 1..response.num :
            \A a \in Item[response.data[n]].authors :
                WholeNameReports(response.author_snippets[n], a) =
                    IF Contains(Lower(Val(search_text)), Lower(Author[a].acronym))
                    THEN 1 ELSE 0

--------------------------------------------------------------------------
\* the tuple get_ordered_items_and_filter_counts returned to the search
ResultsOfSearch ==
    items_cache[StrOfKwargs(ItemsKwargs,
                            Kwargs(page, pagesize, filters, search_text, order_by,
                                   is_desc, preview, explain_results))]

\* a name holds the search text, letter-casing aside
NameHoldsText(name) == HoldsText(Lower(name), Lower(Val(search_text)))

\* C26: other_instances is the empty mapping unless the search is a preview
\* with a non-empty search text; then every Author, Event or Key_Topic it
\* lists has a name that holds the search text case-insensitively, is
\* referenced by a filtered document, and has for n_items the number of
\* filtered documents that reference it, between 1 and the response's n_items.
C26_OtherInstances ==
    (pc = "done" /\ response.error = NoError) =>
        LET other == ResultsOfSearch.other_instances
            docs == ItemsOf(filtered)
        IN  /\ preview => response.other_instances = other
            /\ (~preview \/ ~HasSearchText) => other = EmptyDict
            /\ (preview /\ HasSearchText) =>
                   /\ DOMAIN other = {"Author", "Event", "Key_Topic"}
                   /\ \A x \in other.Author :
                          /\ NameHoldsText(Author[x.id].authoring_organization)
                          /\ x.n_items =
                                 Cardinality({i \in docs : x.id \in Item[i].authors})
                          /\ 1 <= x.n_items /\ x.n_items <= response.n_items
                   /\ \A x \in other.Event :
                          /\ NameHoldsText(Event[x.id].name)
                          /\ x.n_items =
                                 Cardinality({i \in docs : x.id \in Item[i].events})
                          /\ 1 <= x.n_items /\ x.n_items <= response.n_items
                   /\ \A x \in other.Key_Topic :
                          /\ NameHoldsText(x.name)
                          /\ x.n_items =
                                 Cardinality({i \in docs :
                                     \E t \in Item[i].key_topics :
                                         KeyTopic[t].name = x.name})
                          /\ 1 <= x.n_items /\ x.n_items <= response.n_items

\* C26 witness: a preview by the text T over three documents lists the key
\* topic T1, which two of them have.
C26_Witness ==
    /\ pc = "done"
    /\ preview
    /\ search_text = Some(<<"T">>)
    /\ response.error = NoError
    /\ response.n_items = 3
    /\ [name |-> KeyTopic[1].name, n_items |-> 2] \in response.other_instances.Key_Topic
    /\ response.other_instances.Author = {}

--------------------------------------------------------------------------
--------------------------------------------------------------------------
\* the least number of pages of ps items that hold total items
PagesNeeded(total, ps) == CHOOSE n \in 0..total : n * ps >= total /\ (n - 1) * ps < total

\* a response is a page of the partition of total items into pages of ps
IsPageOfPartition(r, ps) ==
    /\ r.num_pages = PagesNeeded(r.total, ps)
    /\ r.num = Len(r.data)
    /\ r.page < r.num_pages => r.num = ps
    /\ r.page = r.num_pages => r.num = r.total - ps * (r.num_pages - 1)
    /\ r.page > r.num_pages => r.num = 0

\* C28 (as stated): for fixed filters, search text, ordering and pagesize, the
\* pages partition the filtered documents: num_pages = ceil(total / pagesize),
\* every page but the last holds pagesize items, a page after the last holds
\* none, no document is on two pages, and the pages 1..num_pages together hold
\* every filtered document, their num summing to total.
C28_PagesPartition ==
    (pc = "again" /\ earlier.error = NoError /\ response.error = NoError) =>
        /\ IsPageOfPartition(earlier, pagesize)
        /\ IsPageOfPartition(response, pagesize)
        /\ response.total = Cardinality(ItemsOf(filtered))
        /\ earlier.total = response.total
        /\ \A a, b \in 1..response.num : a # b => response.data[a] # response.data[b]
        /\ earlier.page # response.page =>
               /\ Range(earlier.data) \cap Range(response.data) = {}
               /\ ({earlier.page, response.page} = 1..response.num_pages) =>
                      /\ Range(earlier.data) \cup Range(response.data) = ItemsOf(filtered)
                      /\ earlier.num + response.num = response.total

--------------------------------------------------------------------------
\* the response of a served request is one get_search computes for its
\* arguments
ComputedForOwnArguments(c) ==
    \E s \in Scans(c.db) :
        c.response = get_search(EmptyCache, c.db, c.kw, s).response

\* the keys of the requests that returned a response
KeysServed ==
    {StrOfKwargs(SearchKwargs, calls[a].kw) :
        a \in {b \in 1..Len(calls) : calls[b].response.error = NoError}}

\* C29 (as stated): requests served at the same time may both miss the cache,
\* compute and store; whatever the interleaving, each returns a response
\* computed for its own arguments, the cache holds one entry for each key
\* served, and, the collection being unchanged, requests with identical
\* arguments return equal responses, those served later included.
C29_RacingRequestsAgree ==
    /\ \A a \in 1..Len(calls) : ComputedForOwnArguments(calls[a])
    /\ DOMAIN search_cache = KeysServed
    /\ \A a, b \in 1..Len(calls) :
           calls[a].kw = calls[b].kw => calls[a].response = calls[b].response

--------------------------------------------------------------------------
\* the allowed values of the years filter of the request
YearsAllowed == {filters[n][2] : n \in {m \in 1..Len(filters) : filters[m][1] = YearsKey}}

\* C30: a document whose date is null is never in the result of a years
\* filter, be it a list of years or a range, open at either end or at both
\* (range_null_null, whose bounds are 0 and 9999).
C30_YearsExcludeUndated ==
    (pc = "filtered" /\ YearsAllowed # {}) =>
        /\ filtered.error = NoError
        /\ \A i \in ItemsOf(filtered) : ~IsNone(Item[i].date)

\* the fully open range was applied to a collection that holds a document
\* with no date, and kept some document
C30_Witness ==
    /\ pc = "filtered"
    /\ YearsAllowed = {<<RangeValue(NullWord, NullWord)>>}
    /\ \E i \in db : IsNone(Item[i].date)
    /\ filtered.error = NoError
    /\ ItemsOf(filtered) # {}

==========================================================================
